---- MODULE Spec2Model ----
(***************************************************************************)
(* Model of the cache-aside store of package cache (Redis backed, gzip    *)
(* compression above 4 KiB, msgpack codec) and of the helpers around it,  *)
(* and of the notification multiplexer of package database (DB.Watch,     *)
(* DB.watch, Operator.Notify, DB.Close over a Postgres LISTEN/NOTIFY      *)
(* listener), with two helpers of the service: metric.newStatsKey and      *)
(* limitreader.Reader.                                                     *)
(*                                                                         *)
(* Byte strings are kept run-length encoded: a sequence of <<byte, count>> *)
(* runs in which neighbouring runs hold different bytes and every count   *)
(* is positive.  Two byte strings are equal exactly when their encodings  *)
(* are equal, so a 4097-byte payload costs one run instead of 4097        *)
(* sequence elements.                                                      *)
(***************************************************************************)
EXTENDS Integers, Sequences, FiniteSets, TLC

VARIABLES store, now, last, gwriters, greaders, scan,
          listenerOnce, listener, topicCallbacks, topicCallbackMu, pg,
          calls, returned, watch, closing, log,
          stats, lr

\* the cache and its backend
cacheVars == <<store, now, last, gwriters, greaders, scan>>

\* the DB, its listener, the Watch and Close calls under way, the dispatch
\* task and what it has dispatched
muxVars == <<listenerOnce, listener, topicCallbacks, topicCallbackMu, pg,
             calls, returned, watch, closing, log>>

\* a call of newStatsKey and a limitreader.Reader
helperVars == <<stats, lr>>

vars == <<store, now, last, gwriters, greaders, scan,
          listenerOnce, listener, topicCallbacks, topicCallbackMu, pg,
          calls, returned, watch, closing, log,
          stats, lr>>

----------------------------------------------------------------------------
(* Byte strings                                                            *)

\* the empty byte string (a nil or zero-length []byte)
Empty == <<>>

\* n copies of byte c
Rep(c, n) == IF n = 0 THEN <<>> ELSE <<<<c, n>>>>

\* append(a, b...)
Cat(a, b) ==
    IF a = <<>> THEN b
    ELSE IF b = <<>> THEN a
    ELSE IF a[Len(a)][1] = b[1][1]
         THEN SubSeq(a, 1, Len(a) - 1)
                \o <<<<b[1][1], a[Len(a)][2] + b[1][2]>>>>
                \o Tail(b)
         ELSE a \o b

RECURSIVE Bytes(_)
\* the byte string holding the bytes of the sequence s
Bytes(s) == IF s = <<>> THEN <<>> ELSE Cat(Rep(Head(s), 1), Bytes(Tail(s)))

RECURSIVE BLen(_)
\* len(b)
BLen(b) == IF b = <<>> THEN 0 ELSE b[1][2] + BLen(Tail(b))

RECURSIVE At(_, _)
\* b[i], indices from 0 as in Go; only used with i < len(b)
At(b, i) == IF i < b[1][2] THEN b[1][1] ELSE At(Tail(b), i - b[1][2])

RECURSIVE Take(_, _)
\* b[:n], with n <= len(b)
Take(b, n) ==
    IF n = 0 \/ b = <<>> THEN <<>>
    ELSE IF n < b[1][2] THEN <<<<b[1][1], n>>>>
    ELSE <<b[1]>> \o Take(Tail(b), n - b[1][2])

RECURSIVE Drop(_, _)
\* b[n:], with n <= len(b)
Drop(b, n) ==
    IF n = 0 \/ b = <<>> THEN b
    ELSE IF n < b[1][2] THEN <<<<b[1][1], b[1][2] - n>>>> \o Tail(b)
    ELSE Drop(Tail(b), n - b[1][2])

RECURSIVE ByteSum(_)
\* sum of all bytes of b
ByteSum(b) == IF b = <<>> THEN 0 ELSE b[1][1] * b[1][2] + ByteSum(Tail(b))

\* v as nb little-endian bytes
LE(v, nb) == Bytes([i \in 1..nb |-> (v \div (256 ^ (i - 1))) % 256])

\* nb little-endian bytes of b from offset off, as a number
RECURSIVE ReadLE(_, _, _)
ReadLE(b, off, nb) ==
    IF nb = 0 THEN 0 ELSE At(b, off) + 256 * ReadLE(b, off + 1, nb - 1)


----------------------------------------------------------------------------
(* gzip framing (RFC 1952) as the pooled gzip.Writer and gzip.Reader of    *)
(* UpdateBytes and ReadBytes produce and consume it.  The deflate body is  *)
(* kept as one final stored block and the CRC-32 as the byte sum: the      *)
(* framing, the lengths and the integrity check are those of the format,   *)
(* the entropy coding is left out.                                         *)

compressThreshold == 4 * 1024

gzipID1 == 31

gzipID2 == 139

gzipDeflate == 8

\* the three bytes isGzipped looks for
GzipMagic == Bytes(<<gzipID1, gzipID2, gzipDeflate>>)

\* the 10-byte member header a gzip.Writer emits: magic, no flags, no mtime,
\* no extra flags, OS unknown (255)
GzipHeader == Cat(GzipMagic, Bytes(<<0, 0, 0, 0, 0, 0, 255>>))

\* the integrity word of the trailer (all byte strings of the model are far
\* shorter than 2^31 bytes, so neither this word nor ISIZE wraps)
Checksum(b) == ByteSum(b)

\* a final stored deflate block: 0x01, LEN, NLEN (one's complement), data
StoredBlock(b) ==
    Cat(Bytes(<<1>>), Cat(LE(BLen(b), 2), Cat(LE(65535 - BLen(b), 2), b)))

\* writer.Write(payload) then writer.Close() into an empty buffer
Gzip(b) ==
    Cat(GzipHeader,
        Cat(StoredBlock(b), Cat(LE(Checksum(b), 4), LE(BLen(b), 4))))

\* isGzipped tests if content is gzipped
isGzipped(b) ==
    IF BLen(b) < 3 THEN FALSE
    ELSE IF At(b, 0) # gzipID1 \/ At(b, 1) # gzipID2 \/ At(b, 2) # gzipDeflate
         THEN FALSE
         ELSE TRUE

\* shouldCompress with the threshold off by one
shouldCompressAtLeast(b) == BLen(b) >= compressThreshold /\ ~isGzipped(b)

\* shouldCompress decides whether or not to compress b
shouldCompress(b) == BLen(b) > compressThreshold /\ ~isGzipped(b)

\* errors are chains of messages, outermost first; nil is the empty chain
NoErr == <<>>

\* fmt.Errorf(label + ": %v", err): the message only, the chain is lost
WrapMessage(label, err) == <<label>>

\* fmt.Errorf(label + ": %w", err)
Wrap(label, err) == <<label>> \o err

\* errors.Is(err, target) for a sentinel target
ErrorsIs(err, target) == \E i \in 1..Len(err) : err[i] = target

\* redis.Nil, the reply of GET for a key that does not exist
RedisNil == "redis: nil"

\* a failed round trip to the backend (connection refused, deadline exceeded)
BackendErr == "backend i/o"

\* what gzip.NewReader and Reader.Reset report after reading the member header
ReadHeader(raw) ==
    IF BLen(raw) = 0 THEN <<"EOF">>
    ELSE IF BLen(raw) < 10 THEN <<"unexpected EOF">>
    ELSE IF ~isGzipped(raw) THEN <<"gzip: invalid header">>
    ELSE NoErr

RECURSIVE Inflate(_)
\* io.Copy(&dest, reader) on a reader whose header has been read: the member
\* body, its trailer, and any further members (multistream); [out, err]
Inflate(raw) ==
    LET body == Drop(raw, 10)
        n    == BLen(body)
    IN  IF n < 1 THEN [out |-> Empty, err |-> <<"unexpected EOF">>]
        ELSE IF (At(body, 0) \div 2) % 4 # 0 \/ At(body, 0) % 2 # 1
             THEN [out |-> Empty, err |-> <<"flate: corrupt input">>]
        ELSE IF n < 5 THEN [out |-> Empty, err |-> <<"unexpected EOF">>]
        ELSE LET len  == ReadLE(body, 1, 2)
                 nlen == ReadLE(body, 3, 2)
             IN  IF nlen # 65535 - len
                 THEN [out |-> Empty, err |-> <<"flate: corrupt input">>]
                 ELSE IF n < 5 + len + 8
                 THEN [out |-> Empty, err |-> <<"unexpected EOF">>]
                 ELSE LET data == Take(Drop(body, 5), len)
                          rest == Drop(body, 5 + len + 8)
                          tail == Take(Drop(body, 5 + len), 8)
                      IN  IF tail # Cat(LE(Checksum(data), 4), LE(len, 4))
                          THEN [out |-> Empty, err |-> <<"gzip: invalid checksum">>]
                          ELSE IF rest = Empty
                          THEN [out |-> data, err |-> NoErr]
                          ELSE IF ReadHeader(rest) # NoErr
                          THEN [out |-> Empty, err |-> ReadHeader(rest)]
                          ELSE LET more == Inflate(rest)
                               IN  [out |-> Cat(data, more.out), err |-> more.err]

----------------------------------------------------------------------------
(* msgpack codec, for the value shapes the model stores: strings and bools *)

StrVal(b) == [t |-> "str", v |-> b]

\* a bool is kept as the one byte 1 or 0, so that all values compare
BoolVal(x) == [t |-> "bool", v |-> Rep(IF x THEN 1 ELSE 0, 1)]

\* big-endian length of nb bytes
BE(v, nb) == Bytes([i \in 1..nb |-> (v \div (256 ^ (nb - i))) % 256])

\* msgpack.Marshal(payload)
Marshal(val) ==
    IF val.t = "bool" THEN Bytes(<<IF val.v = Rep(1, 1) THEN 195 ELSE 194>>)
    ELSE LET l == BLen(val.v)
         IN  IF l < 32 THEN Cat(Bytes(<<160 + l>>), val.v)
             ELSE IF l < 256 THEN Cat(Bytes(<<217, l>>), val.v)
             ELSE IF l <= 65535 THEN Cat(Cat(Bytes(<<218>>), BE(l, 2)), val.v)
             ELSE Cat(Cat(Bytes(<<219>>), BE(l, 4)), val.v)

\* nb big-endian bytes of b from offset off, as a number
RECURSIVE ReadBE(_, _, _)
ReadBE(b, off, nb) ==
    IF nb = 0 THEN 0
    ELSE At(b, off) * (256 ^ (nb - 1)) + ReadBE(b, off + 1, nb - 1)

\* the string of length l that follows a header of h bytes
DecodeStrBody(raw, h, l) ==
    IF BLen(raw) < h + l
    THEN [val |-> StrVal(Empty), err |-> <<"unexpected EOF">>]
    ELSE [val |-> StrVal(Take(Drop(raw, h), l)), err |-> NoErr]

\* msgpack.Unmarshal(raw, dest) for dest a *string ("str") or a *bool ("bool");
\* [val, err]
Unmarshal(raw, dest) ==
    LET zero == IF dest = "bool" THEN BoolVal(FALSE) ELSE StrVal(Empty)
    IN  IF BLen(raw) = 0 THEN [val |-> zero, err |-> <<"EOF">>]
        ELSE LET c == At(raw, 0)
             IN  IF c = 192 THEN [val |-> zero, err |-> NoErr]
                 ELSE IF dest = "bool"
                 THEN IF c = 194 THEN [val |-> BoolVal(FALSE), err |-> NoErr]
                      ELSE IF c = 195 THEN [val |-> BoolVal(TRUE), err |-> NoErr]
                      ELSE [val |-> zero,
                            err |-> <<"msgpack: invalid code decoding bool">>]
                 ELSE IF c >= 160 /\ c < 192 THEN DecodeStrBody(raw, 1, c - 160)
                 ELSE IF c \in {217, 196}
                 THEN IF BLen(raw) < 2
                      THEN [val |-> zero, err |-> <<"unexpected EOF">>]
                      ELSE DecodeStrBody(raw, 2, ReadBE(raw, 1, 1))
                 ELSE IF c \in {218, 197}
                 THEN IF BLen(raw) < 3
                      THEN [val |-> zero, err |-> <<"unexpected EOF">>]
                      ELSE DecodeStrBody(raw, 3, ReadBE(raw, 1, 2))
                 ELSE IF c \in {219, 198}
                 THEN IF BLen(raw) < 5 \/ At(raw, 1) >= 128
                      THEN [val |-> zero, err |-> <<"unexpected EOF">>]
                      ELSE DecodeStrBody(raw, 5, ReadBE(raw, 1, 4))
                 ELSE [val |-> zero,
                       err |-> <<"msgpack: invalid code decoding string length">>]

----------------------------------------------------------------------------
(* The Redis backend, as far as GET, SET, UNLINK and TTL go.  store maps   *)
(* each live key to its bytes and its expiry (0: none, else the second at  *)
(* which it expires); now is the server clock in seconds.                  *)

\* bound of the clock
MaxClock == 2

\* a short expiration, in seconds
ShortTTL == 1

\* the expiration TestCURD uses, in seconds
TestTTL == 20

\* keys are a name space followed by a number: "cache-1", "other-1"
Key(ns, id) == <<ns, id>>

\* the key the single-key specifications work on
TheKey == Key("cache-", 1)

\* GET key: [val, err]
RedisGet(key, fail) ==
    IF fail THEN [val |-> Empty, err |-> <<BackendErr>>]
    ELSE IF key \in DOMAIN store THEN [val |-> store[key].val, err |-> NoErr]
    ELSE [val |-> Empty, err |-> <<RedisNil>>]

\* SET key value [EX expiration]: go-redis sends an expiry only when
\* expiration > 0, and a plain SET drops the expiry the key had; [store, err]
RedisSet(key, value, expiration, fail) ==
    IF fail THEN [store |-> store, err |-> <<BackendErr>>]
    ELSE [store |-> [k \in DOMAIN store \cup {key} |->
                        IF k = key
                        THEN [val |-> value,
                              exp |-> IF expiration > 0 THEN now + expiration ELSE 0]
                        ELSE store[k]],
          err |-> NoErr]

\* UNLINK key...: keys that do not exist are skipped; the server rejects a
\* command without keys; [store, err]
RedisUnlink(ks, fail) ==
    IF fail THEN [store |-> store, err |-> <<BackendErr>>]
    ELSE IF ks = {}
    THEN [store |-> store, err |-> <<"ERR wrong number of arguments">>]
    ELSE [store |-> [k \in DOMAIN store \ ks |-> store[k]], err |-> NoErr]

\* one command sent to the backend and whether it came back without error
Cmd(name, err) == [cmd |-> name, ok |-> err = NoErr]

\* TTL key, in seconds: -2 no such key, -1 no expiry
RedisTTL(key) ==
    IF key \notin DOMAIN store THEN -2
    ELSE IF store[key].exp = 0 THEN -1
    ELSE store[key].exp - now

----------------------------------------------------------------------------
(* Cache: ReadBytes, UpdateBytes, Read, Update, Revoke                     *)

\* ReadBytes falling back to the raw bytes when they do not gunzip
ReadBytesLenient(key, fail) ==
    LET get == RedisGet(key, fail)
    IN  IF get.err # NoErr
        THEN [b |-> Empty, err |-> Wrap("redis GET", get.err), greaders |-> greaders,
              cmds |-> <<Cmd("GET", get.err)>>]
        ELSE IF isGzipped(get.val) /\ ReadHeader(get.val) = NoErr
                /\ Inflate(get.val).err = NoErr
        THEN [b |-> Inflate(get.val).out, err |-> NoErr, greaders |-> 1,
              cmds |-> <<Cmd("GET", get.err)>>]
        ELSE [b |-> get.val, err |-> NoErr, greaders |-> greaders,
              cmds |-> <<Cmd("GET", get.err)>>]

\* ReadBytes sending its GET a second time when the first one failed
ReadBytesRetrying(key, fail) ==
    LET get == RedisGet(key, fail)
    IN  [b |-> IF get.err # NoErr \/ isGzipped(get.val) THEN Empty ELSE get.val,
         err |-> IF get.err # NoErr THEN Wrap("redis GET", get.err) ELSE NoErr,
         greaders |-> greaders,
         cmds |-> IF get.err # NoErr
                  THEN <<Cmd("GET", get.err), Cmd("GET", get.err)>>
                  ELSE <<Cmd("GET", get.err)>>]

\* ReadBytes(ctx, key): [b, err, greaders, cmds]; greaders is the pool
\* afterwards, cmds the backend commands the call sent
ReadBytesCall(key, fail) ==
    LET get    == RedisGet(key, fail)
        raw    == get.val
        pooled == greaders > 0
        taken  == IF pooled THEN greaders - 1 ELSE greaders
        cmds   == <<Cmd("GET", get.err)>>
    IN  IF get.err # NoErr
        THEN [b |-> Empty, err |-> Wrap("redis GET", get.err), greaders |-> greaders,
              cmds |-> cmds]
        ELSE IF ~isGzipped(raw)
        THEN [b |-> raw, err |-> NoErr, greaders |-> greaders, cmds |-> cmds]
        ELSE IF ReadHeader(raw) # NoErr
        THEN [b |-> Empty,
              err |-> Wrap(IF pooled THEN "reader.Reset" ELSE "gzip.NewReader",
                           ReadHeader(raw)),
              greaders |-> taken, cmds |-> cmds]
        ELSE LET copy == Inflate(raw)
             IN  IF copy.err # NoErr
                 THEN [b |-> Empty, err |-> Wrap("io.Copy", copy.err),
                       greaders |-> taken + 1, cmds |-> cmds]
                 ELSE [b |-> copy.out, err |-> NoErr, greaders |-> taken + 1,
                       cmds |-> cmds]

\* UpdateBytes forgetting the expiration on the compressed path
UpdateBytesNoExpiry(key, payload, expiration, fail) ==
    LET set == RedisSet(key, IF shouldCompress(payload) THEN Gzip(payload)
                             ELSE payload,
                        IF shouldCompress(payload) THEN 0 ELSE expiration, fail)
    IN  [store |-> set.store, err |-> set.err, gwriters |-> gwriters,
         cmds |-> <<Cmd("SET", set.err)>>]

\* UpdateBytes(ctx, key, payload, expiration): [store, err, gwriters, cmds].  The
\* writer fills a bytes.Buffer, whose Write never fails, so writer.Write and
\* writer.Close return nil.
UpdateBytesCall(key, payload, expiration, fail) ==
    IF ~shouldCompress(payload)
    THEN LET set == RedisSet(key, payload, expiration, fail)
         IN  [store |-> set.store, err |-> set.err, gwriters |-> gwriters,
              cmds |-> <<Cmd("SET", set.err)>>]
    ELSE LET taken == IF gwriters > 0 THEN gwriters - 1 ELSE gwriters
             set   == RedisSet(key, Gzip(payload), expiration, fail)
         IN  [store |-> set.store,
              err |-> IF set.err # NoErr
                      THEN Wrap("redis SET gzipped", set.err)
                      ELSE NoErr,
              gwriters |-> taken + 1,
              cmds |-> <<Cmd("SET", set.err)>>]

\* what the last finished call was, what it returned and the backend
\* commands it sent
Call(op, key, arg, ttl, dest, out, err, fail, cmds) ==
    [op |-> op, key |-> key, arg |-> arg, ttl |-> ttl, dest |-> dest,
     out |-> out, err |-> err, fail |-> fail, at |-> now, cmds |-> cmds]

ReadBytes(key, fail) ==
    LET r == ReadBytesCall(key, fail)
    IN  /\ last' = Call("ReadBytes", key, Empty, 0, "", r.b, r.err, fail, r.cmds)
        /\ greaders' = r.greaders
        /\ UNCHANGED <<store, now, gwriters, scan, muxVars, helperVars>>

\* Read(ctx, key, dest): [val, err, greaders, cmds]; val is what dest holds
\* afterwards
ReadCall(key, dest, fail) ==
    LET r    == ReadBytesCall(key, fail)
        dec  == Unmarshal(r.b, dest)
        zero == IF dest = "bool" THEN BoolVal(FALSE) ELSE StrVal(Empty)
    IN  IF r.err # NoErr
        THEN [val |-> zero, err |-> Wrap("ReadBytes", r.err), greaders |-> r.greaders,
              cmds |-> r.cmds]
        ELSE IF dec.err # NoErr
        THEN [val |-> dec.val, err |-> Wrap("msgpack decoding", dec.err),
              greaders |-> r.greaders, cmds |-> r.cmds]
        ELSE [val |-> dec.val, err |-> NoErr, greaders |-> r.greaders,
              cmds |-> r.cmds]

Read(key, dest, fail) ==
    LET r == ReadCall(key, dest, fail)
    IN  /\ last' = Call("Read", key, Empty, 0, dest, r.val, r.err, fail, r.cmds)
        /\ greaders' = r.greaders
        /\ UNCHANGED <<store, now, gwriters, scan, muxVars, helperVars>>

UpdateBytes(key, payload, expiration, fail) ==
    LET r == UpdateBytesCall(key, payload, expiration, fail)
    IN  /\ last' = Call("UpdateBytes", key, payload, expiration, "", Empty,
                        r.err, fail, r.cmds)
        /\ store' = r.store
        /\ gwriters' = r.gwriters
        /\ UNCHANGED <<now, greaders, scan, muxVars, helperVars>>

\* msgpack.Marshal does not fail on strings and bools
Update(key, payload, expiration, fail) ==
    LET r == UpdateBytesCall(key, Marshal(payload), expiration, fail)
    IN  /\ last' = Call("Update", key, payload, expiration, "", Empty,
                        IF r.err # NoErr THEN Wrap("UpdateBytes", r.err)
                        ELSE NoErr,
                        fail, r.cmds)
        /\ store' = r.store
        /\ gwriters' = r.gwriters
        /\ UNCHANGED <<now, greaders, scan, muxVars, helperVars>>

\* Revoke reporting an error when it deleted nothing
RevokeStrict(ks, fail) ==
    LET r == RedisUnlink(ks, fail)
    IN  [store |-> r.store,
         err |-> IF r.err # NoErr THEN Wrap("redis Unlink", r.err)
                 ELSE IF ks \cap DOMAIN store = {} THEN <<"nothing deleted">>
                 ELSE NoErr,
         cmds |-> <<Cmd("UNLINK", r.err)>>]

\* Revoke(ctx, key...): [store, err, cmds]
RevokeCall(ks, fail) ==
    LET r == RedisUnlink(ks, fail)
    IN  [store |-> r.store,
         err |-> IF r.err # NoErr THEN Wrap("redis Unlink", r.err) ELSE NoErr,
         cmds |-> <<Cmd("UNLINK", r.err)>>]

Revoke(ks, fail) ==
    LET r == RevokeCall(ks, fail)
    IN  /\ last' = Call("Revoke", ks, Empty, 0, "", Empty, r.err, fail, r.cmds)
        /\ store' = r.store
        /\ UNCHANGED <<now, gwriters, greaders, scan, muxVars, helperVars>>

\* a second passes; the server drops the keys whose expiry has come
Tick ==
    /\ now < MaxClock
    /\ now' = now + 1
    /\ store' = [k \in {x \in DOMAIN store :
                          store[x].exp = 0 \/ store[x].exp > now + 1} |-> store[k]]
    /\ UNCHANGED <<last, gwriters, greaders, scan, muxVars, helperVars>>

\* a garbage collection empties the sync.Pools
PoolGC ==
    /\ gwriters' = 0
    /\ greaders' = 0
    /\ UNCHANGED <<store, now, last, scan, muxVars, helperVars>>

----------------------------------------------------------------------------
(* RevokeByPattern: SCAN with a cursor, UNLINK in batches.                 *)
(*                                                                         *)
(* The key space is a table of slots, one per key name, "other-" keys      *)
(* first.  A SCAN call walks the next ScanCount slots from its cursor and  *)
(* returns the keys that are stored there and match, with the next cursor  *)
(* (0 at the end of the table), so a page can be empty.  Patterns are a    *)
(* name space followed by "*" ("cache-*"), or "*" alone.                   *)

\* i > 1000 in the scan loop
BatchLimit == 1000

\* COUNT when SCAN is sent without one (count 0 in red.Redis.Scan)
ScanCount == 10

\* slots for "other-" keys: more than one page of them
MaxOther == ScanCount + 2

\* slots for "cache-" keys: a round of delete in the loop and a remainder
MaxCache == BatchLimit + 2

NumSlots == MaxOther + MaxCache

SlotKey(j) == IF j <= MaxOther THEN Key("other-", j) ELSE Key("cache-", j - MaxOther)

\* glob match of a key name
Match(pattern, key) == pattern[2] = "*" /\ (pattern[1] = "" \/ pattern[1] = key[1])

Patterns == {<<"cache-", "*">>, <<"", "*">>}

\* SCAN that returns the stored keys of the slots whatever the pattern
RedisScanAnyKey(cursor, pattern, fail) ==
    IF fail THEN [page |-> <<>>, cursor |-> cursor, err |-> <<BackendErr>>]
    ELSE LET end   == IF cursor + ScanCount < NumSlots THEN cursor + ScanCount
                      ELSE NumSlots
             slots == [j \in 1..(end - cursor) |-> SlotKey(cursor + j)]
             Hit(k) == k \in DOMAIN store
         IN  [page |-> SelectSeq(slots, Hit),
              cursor |-> IF end = NumSlots THEN 0 ELSE end,
              err |-> NoErr]

\* SCAN cursor MATCH pattern: [page, cursor, err]
RedisScan(cursor, pattern, fail) ==
    IF fail THEN [page |-> <<>>, cursor |-> cursor, err |-> <<BackendErr>>]
    ELSE LET end   == IF cursor + ScanCount < NumSlots THEN cursor + ScanCount
                      ELSE NumSlots
             slots == [j \in 1..(end - cursor) |-> SlotKey(cursor + j)]
             Hit(k) == k \in DOMAIN store /\ Match(pattern, k)
         IN  [page |-> SelectSeq(slots, Hit),
              cursor |-> IF end = NumSlots THEN 0 ELSE end,
              err |-> NoErr]

\* no RevokeByPattern call is running
ScanIdle ==
    [pc |-> "idle", pattern |-> <<"", "">>, cursor |-> 0, page |-> <<>>,
     pos |-> 0, err |-> NoErr, keys |-> <<>>, i |-> 0, before |-> <<>>,
     unlinks |-> 0, sent |-> 0, held |-> 0, cmds |-> <<>>, raced |-> {}]

Range(seq) == {seq[j] : j \in 1..Len(seq)}

\* the scan loop body without the round of delete
LoopBodyKeepsAll(keys, i, key, fail) ==
    [keys |-> Append(keys, key), i |-> i + 1, store |-> store, err |-> NoErr,
     unlinked |-> FALSE, sent |-> 0]

\* the body of the scan loop for the key iter.Val(): [keys, i, store, err,
\* unlinked, sent]; sent is the number of keys in the UNLINK it issued
LoopBody(keys, i, key, fail) ==
    IF i + 1 > BatchLimit
    THEN LET r == RedisUnlink(Range(Append(keys, key)), fail)
         IN  IF r.err # NoErr
             THEN [keys |-> Append(keys, key), i |-> 0, store |-> store,
                   err |-> Wrap("redis Unlink in scan loop", r.err),
                   unlinked |-> FALSE, sent |-> Len(keys) + 1]
             ELSE [keys |-> <<>>, i |-> 0, store |-> r.store, err |-> NoErr,
                   unlinked |-> TRUE, sent |-> Len(keys) + 1]
    ELSE [keys |-> Append(keys, key), i |-> i + 1, store |-> store,
          err |-> NoErr, unlinked |-> FALSE, sent |-> 0]

\* what follows the loop, without the delete of the remainder
AfterLoopKeepsRest(keys, iterErr, fail) ==
    [store |-> store,
     err |-> IF iterErr # NoErr THEN Wrap("iter.Err", iterErr) ELSE NoErr,
     unlinked |-> FALSE, sent |-> 0]

\* what follows the loop with the remainder deleted before iter.Err() is
\* looked at
AfterLoopDeletesFirst(keys, iterErr, fail) ==
    LET r == RedisUnlink(Range(keys), fail)
    IN  IF Len(keys) > 0 /\ r.err = NoErr
        THEN [store |-> r.store,
              err |-> IF iterErr # NoErr THEN Wrap("iter.Err", iterErr) ELSE NoErr,
              unlinked |-> TRUE, sent |-> Len(keys)]
        ELSE [store |-> store,
              err |-> IF iterErr # NoErr THEN Wrap("iter.Err", iterErr)
                      ELSE IF Len(keys) > 0
                      THEN Wrap("redis Unlink after scan finish", r.err)
                      ELSE NoErr,
              unlinked |-> FALSE, sent |-> Len(keys)]

\* what follows the loop: iter.Err(), then the remainder; [store, err,
\* unlinked, sent]
AfterLoop(keys, iterErr, fail) ==
    IF iterErr # NoErr
    THEN [store |-> store, err |-> Wrap("iter.Err", iterErr),
          unlinked |-> FALSE, sent |-> 0]
    ELSE IF Len(keys) > 0
    THEN LET r == RedisUnlink(Range(keys), fail)
         IN  IF r.err # NoErr
             THEN [store |-> store,
                   err |-> Wrap("redis Unlink after scan finish", r.err),
                   unlinked |-> FALSE, sent |-> Len(keys)]
             ELSE [store |-> r.store, err |-> NoErr, unlinked |-> TRUE,
                   sent |-> Len(keys)]
    ELSE [store |-> store, err |-> NoErr, unlinked |-> FALSE, sent |-> 0]

\* red.Redis.Scan(ctx, 0, patten, 0).Iterator(): the first SCAN is sent
\* here.  One call is followed from its start to its return.
RevokeByPatternStart(pattern, fail) ==
    /\ scan.pc = "idle"
    /\ LET r == RedisScan(0, pattern, fail)
       IN  scan' = [pc |-> "loop", pattern |-> pattern, cursor |-> r.cursor,
                    page |-> r.page, pos |-> 0, err |-> r.err, keys |-> <<>>,
                    i |-> 0, before |-> store, unlinks |-> 0, sent |-> 0,
                    held |-> 0, cmds |-> <<Cmd("SCAN", r.err)>>, raced |-> {}]
    /\ UNCHANGED <<store, now, last, gwriters, greaders, muxVars, helperVars>>

Largest(a, b) == IF a >= b THEN a ELSE b

RECURSIVE IterLocal(_)
\* the turns of "for iter.Next(ctx)" that talk to nobody: while the page
\* holds another key and the round of delete is not due, the loop body only
\* appends the key and counts it
IterLocal(sc) ==
    IF sc.pos < Len(sc.page) /\ sc.i + 1 <= BatchLimit
    THEN LET body == LoopBody(sc.keys, sc.i, sc.page[sc.pos + 1], FALSE)
         IN  IterLocal([sc EXCEPT !.pos = sc.pos + 1, !.keys = body.keys,
                                  !.i = body.i,
                                  !.held = Largest(sc.held, Len(body.keys))])
    ELSE sc

\* RevokeByPattern returns
Return(sc, out, failed) ==
    /\ scan' = [sc EXCEPT !.pc = "done"]
    /\ store' = out.store
    /\ last' = Call("RevokeByPattern", sc.pattern, Empty, 0, "", Empty, out.err,
                    failed, sc.cmds)

\* Each step of a running call is its local turns followed by the one
\* backend command they lead to: the UNLINK of a round of delete, the next
\* SCAN, or what follows the loop.

\* iter.Next reports true for the key that makes the round of delete due:
\* the loop body runs with its UNLINK
RevokeByPatternNext(fail) ==
    /\ scan.pc = "loop"
    /\ LET sc == IterLocal(scan)
       IN  /\ sc.pos < Len(sc.page)
           /\ LET body == LoopBody(sc.keys, sc.i, sc.page[sc.pos + 1], fail)
                  sc2  == [sc EXCEPT !.pos = sc.pos + 1, !.keys = body.keys,
                                     !.i = body.i,
                                     !.unlinks = IF body.unlinked
                                                 THEN sc.unlinks + 1
                                                 ELSE sc.unlinks,
                                     !.sent = Largest(sc.sent, body.sent),
                                     !.cmds = IF body.sent > 0
                                              THEN Append(@, Cmd("UNLINK", body.err))
                                              ELSE @,
                                     !.held = Largest(sc.held, Len(sc.keys) + 1)]
              IN  IF body.err # NoErr
                  THEN Return(sc2, body, TRUE)
                  ELSE /\ scan' = sc2
                       /\ store' = body.store
                       /\ last' = last
    /\ UNCHANGED <<now, gwriters, greaders, muxVars, helperVars>>

\* iter.Next finds the page used up and the cursor not back at 0: it sends
\* the next SCAN (and goes on doing so while the pages come back empty)
RevokeByPatternFetch(fail) ==
    /\ scan.pc = "loop"
    /\ LET sc == IterLocal(scan)
       IN  /\ sc.pos >= Len(sc.page)
           /\ sc.err = NoErr
           /\ sc.cursor # 0
           /\ LET r == RedisScan(sc.cursor, sc.pattern, fail)
              IN  scan' = IF r.err # NoErr
                          THEN [sc EXCEPT !.err = r.err,
                                          !.cmds = Append(@, Cmd("SCAN", r.err))]
                          ELSE [sc EXCEPT !.page = r.page, !.pos = 0,
                                          !.cursor = r.cursor,
                                          !.cmds = Append(@, Cmd("SCAN", r.err))]
    /\ UNCHANGED <<store, now, last, gwriters, greaders, muxVars, helperVars>>

\* iter.Next reports false (a SCAN failed, or the cursor is back at 0 and
\* the page is used up): what follows the loop runs and the call returns
RevokeByPatternFinish(fail) ==
    /\ scan.pc = "loop"
    /\ LET sc == IterLocal(scan)
       IN  /\ sc.pos >= Len(sc.page)
           /\ sc.err # NoErr \/ sc.cursor = 0
           /\ LET rest == AfterLoop(sc.keys, sc.err, fail)
              IN  Return([sc EXCEPT !.unlinks = IF rest.unlinked
                                                THEN sc.unlinks + 1
                                                ELSE sc.unlinks,
                                    !.sent = Largest(sc.sent, rest.sent),
                                    !.cmds = IF rest.sent > 0
                                             THEN Append(@, Cmd("UNLINK", rest.err))
                                             ELSE @],
                         rest, rest.err # NoErr)
    /\ UNCHANGED <<now, gwriters, greaders, muxVars, helperVars>>

\* Update(ctx, key, payload, 0) of another client while a RevokeByPattern
\* call is between its first SCAN and its return; scan.raced keeps the keys
\* written in that time
WriterUpdate(key, payload) ==
    /\ scan.pc = "loop"
    /\ LET r == UpdateBytesCall(key, Marshal(payload), 0, FALSE)
       IN  /\ store' = r.store
           /\ gwriters' = r.gwriters
           /\ last' = Call("Update", key, payload, 0, "", Empty,
                           IF r.err # NoErr THEN Wrap("UpdateBytes", r.err)
                           ELSE NoErr,
                           FALSE, r.cmds)
    /\ scan' = [scan EXCEPT !.raced = @ \cup {key}]
    /\ UNCHANGED <<now, greaders, muxVars, helperVars>>

----------------------------------------------------------------------------
(* Notification multiplexer: DB.Watch, DB.watch, Operator.Notify, DB.Close *)
(*                                                                         *)
(* Watch calls run in caller tasks and are followed statement by           *)
(* statement; DB.watch is the dispatch task started by the first of them.  *)
(* The pg.Listener owns the connection the server delivers notifications   *)
(* on (conn) and, once Channel() has been called, a task that moves them   *)
(* into the channel DB.watch ranges over (ch).  A notification is          *)
(* [channel, payload, n], n being the number of the NOTIFY that sent it.   *)

Topics == {"T1", "T2"}

\* the payload of the k-th NOTIFY of a behaviour
NotifyPayloads == <<"p1", "p2", "p3">>

\* the tasks that call Watch
Callers == {1, 2}

\* the callback of the k-th Watch call of a behaviour
Callbacks == <<"A", "B", "C">>

\* Watch calls in a behaviour
MaxWatch == Len(Callbacks)

\* NOTIFY statements in a behaviour
MaxNotify == 2

\* the topic... arguments of the Watch calls
TopicLists == {<<"T1">>, <<"T2">>, <<"T2", "T1">>, <<"T1", "T1">>}

\* a DB as NewPostgres returns it: no listener, a nil callback map, an
\* unused Once and an unlocked mutex
NoListener ==
    [made |-> 0, closed |-> FALSE, subs |-> {}, conn |-> <<>>, ch |-> <<>>,
     chOpen |-> "none"]

NoNotification == [channel |-> "", payload |-> "", n |-> 0]

\* the seconds DB.watch gives the callbacks of one notification
CallbackTimeout == 10

\* no context: DB.watch is not inside the body of its loop
NoContext ==
    [id |-> 0, parent |-> "", timeout |-> 0, err |-> NoErr, cancelled |-> FALSE]

\* a context handed out again in place of a new one
WithTimeoutReused(parent, timeout, made) ==
    [id |-> 1, parent |-> parent, timeout |-> timeout, err |-> NoErr,
     cancelled |-> FALSE]

\* context.WithTimeout(parent, timeout) when made contexts were made
\* before: a new context, told from the others by its id; err is what
\* ctx.Err() reports and cancelled whether its cancel() has been called
WithTimeout(parent, timeout, made) ==
    [id |-> made + 1, parent |-> parent, timeout |-> timeout, err |-> NoErr,
     cancelled |-> FALSE]

IdleCall == [pc |-> "idle", cb |-> "", topics |-> <<>>, racing |-> FALSE]

InitDB ==
    /\ listenerOnce = "new"
    /\ listener = NoListener
    /\ topicCallbacks = <<>>
    /\ topicCallbackMu = [w |-> 0, r |-> 0]
    /\ pg = [closed |-> FALSE, tried |-> 0, pub |-> <<>>, err |-> NoErr,
             rejected |-> FALSE]
    /\ calls = [c \in Callers |-> IdleCall]
    /\ returned = <<>>
    /\ watch = [tasks |-> 0, pc |-> "none", notify |-> NoNotification,
                cbs |-> <<>>, idx |-> 0, ctx |-> NoContext, made |-> 0]
    /\ closing = "idle"
    /\ log = <<>>

\* a panic nobody recovers ends the process with all its tasks
Alive == watch.pc # "crashed" /\ \A c \in Callers : calls[c].pc # "panic"

\* Watch calls begun so far
Begun == Len(returned) + Cardinality({c \in Callers : calls[c].pc # "idle"})

\* a caller task calls db.Watch(ctx, callback, topic...); racing tells
\* whether the call finds the Once not yet done
WatchBegin(c, topics) ==
    /\ Alive
    /\ calls[c].pc = "idle"
    /\ Begun < MaxWatch
    /\ calls' = [calls EXCEPT ![c] = [pc |-> "once", cb |-> Callbacks[Begun + 1],
                                      topics |-> topics,
                                      racing |-> listenerOnce # "done"]]
    /\ UNCHANGED <<listenerOnce, listener, topicCallbacks, topicCallbackMu, pg,
                   returned, watch, closing, log>>
    /\ UNCHANGED <<cacheVars, helperVars>>

\* a test of the Once's state in place of Do: whoever finds f not yet
\* finished runs it
OnceDoUnlatched(o) == IF o = "done" THEN "skip" ELSE "run"

\* sync.Once.Do for a caller that finds the Once in state o: run f, wait
\* for the task that is running f, or go on
OnceDo(o) ==
    IF o = "new" THEN "run" ELSE IF o = "running" THEN "wait" ELSE "skip"

\* db.listenerOnce.Do(func() {...}) is entered
WatchOnce(c) ==
    /\ Alive
    /\ calls[c].pc = "once"
    /\ OnceDo(listenerOnce) # "wait"
    /\ IF OnceDo(listenerOnce) = "run"
       THEN /\ listenerOnce' = "running"
            /\ calls' = [calls EXCEPT ![c].pc = "f_listen"]
       ELSE /\ listenerOnce' = listenerOnce
            /\ calls' = [calls EXCEPT ![c].pc = "listen"]
    /\ UNCHANGED <<listener, topicCallbacks, topicCallbackMu, pg, returned,
                   watch, closing, log>>
    /\ UNCHANGED <<cacheVars, helperVars>>

\* db.pg.Listen(ctx, topic...): a new listener; the error of its first
\* LISTEN is not reported
PgListen(topics) ==
    [made |-> listener.made + 1, closed |-> FALSE,
     subs |-> IF pg.closed THEN {} ELSE Range(topics),
     conn |-> <<>>, ch |-> <<>>, chOpen |-> "none"]

\* inside the Once: db.listener = db.pg.Listen(ctx, topic...)
WatchOnceListen(c) ==
    /\ Alive
    /\ calls[c].pc = "f_listen"
    /\ listener' = PgListen(calls[c].topics)
    /\ calls' = [calls EXCEPT ![c].pc = "f_go"]
    /\ UNCHANGED <<listenerOnce, topicCallbacks, topicCallbackMu, pg, returned,
                   watch, closing, log>>
    /\ UNCHANGED <<cacheVars, helperVars>>

\* inside the Once: db.topicCallbacks = make(...); go db.watch(); f returns
\* and the Once is done
WatchOnceGo(c) ==
    /\ Alive
    /\ calls[c].pc = "f_go"
    /\ topicCallbacks' = [t \in Topics |-> <<>>]
    /\ watch' = [tasks |-> watch.tasks + 1, pc |-> "channel",
                 notify |-> NoNotification, cbs |-> <<>>, idx |-> 0,
                 ctx |-> NoContext, made |-> 0]
    /\ listenerOnce' = "done"
    /\ calls' = [calls EXCEPT ![c].pc = "listen"]
    /\ UNCHANGED <<listener, topicCallbackMu, pg, returned, closing, log>>
    /\ UNCHANGED <<cacheVars, helperVars>>

\* the call of c returns err
WatchReturn(c, err) ==
    /\ returned' = Append(returned, [cb |-> calls[c].cb,
                                      topics |-> calls[c].topics,
                                      racing |-> calls[c].racing, err |-> err])
    /\ calls' = [calls EXCEPT ![c] = IdleCall]

\* Watch registering the callback under its first topic before it knows
\* whether LISTEN went through
WatchListenRegistersFirst(c, fail) ==
    /\ Alive
    /\ calls[c].pc = "listen"
    /\ listener.made > 0
    /\ IF fail
       THEN /\ WatchReturn(c, Wrap("db.listener.Listen", <<BackendErr>>))
            /\ topicCallbacks' = [topicCallbacks EXCEPT
                                     ![Head(calls[c].topics)] =
                                         Append(@, calls[c].cb)]
            /\ UNCHANGED listener
       ELSE /\ listener' = [listener EXCEPT
                               !.subs = @ \cup Range(calls[c].topics)]
            /\ calls' = [calls EXCEPT ![c].pc = "lock"]
            /\ UNCHANGED <<returned, topicCallbacks>>
    /\ UNCHANGED <<listenerOnce, topicCallbackMu, pg, watch, closing, log>>
    /\ UNCHANGED <<cacheVars, helperVars>>

\* err = db.listener.Listen(ctx, topic...), and the return when it fails
WatchListen(c, fail) ==
    /\ Alive
    /\ calls[c].pc = "listen"
    /\ IF listener.made = 0
       THEN /\ calls' = [calls EXCEPT ![c].pc = "panic"]
            /\ UNCHANGED <<listener, returned>>
       ELSE IF listener.closed
       THEN /\ WatchReturn(c, Wrap("db.listener.Listen", <<"pg: listener is closed">>))
            /\ UNCHANGED listener
       ELSE IF pg.closed
       THEN /\ WatchReturn(c, Wrap("db.listener.Listen", <<"pg: database is closed">>))
            /\ UNCHANGED listener
       ELSE IF fail
       THEN /\ WatchReturn(c, Wrap("db.listener.Listen", <<BackendErr>>))
            /\ UNCHANGED listener
       ELSE /\ listener' = [listener EXCEPT
                               !.subs = @ \cup Range(calls[c].topics)]
            /\ calls' = [calls EXCEPT ![c].pc = "lock"]
            /\ UNCHANGED returned
    /\ UNCHANGED <<listenerOnce, topicCallbacks, topicCallbackMu, pg, watch,
                   closing, log>>
    /\ UNCHANGED <<cacheVars, helperVars>>

\* db.topicCallbackMu.Lock()
WatchLock(c) ==
    /\ Alive
    /\ calls[c].pc = "lock"
    /\ topicCallbackMu.w = 0
    /\ topicCallbackMu.r = 0
    /\ topicCallbackMu' = [topicCallbackMu EXCEPT !.w = c]
    /\ calls' = [calls EXCEPT ![c].pc = "append"]
    /\ UNCHANGED <<listenerOnce, listener, topicCallbacks, pg, returned, watch,
                   closing, log>>
    /\ UNCHANGED <<cacheVars, helperVars>>

RECURSIVE RegisterLatest(_, _, _)
\* the registration loop keeping only the newest callback of a topic
RegisterLatest(m, topics, cb) ==
    IF topics = <<>> THEN m
    ELSE RegisterLatest([m EXCEPT ![Head(topics)] = <<cb>>], Tail(topics), cb)

RECURSIVE Register(_, _, _)
\* for _, t := range topic { db.topicCallbacks[t] = append(..., callback) }
Register(m, topics, cb) ==
    IF topics = <<>> THEN m
    ELSE Register([m EXCEPT ![Head(topics)] = Append(@, cb)], Tail(topics), cb)

\* the registration loop, the deferred Unlock and the return
WatchAppend(c) ==
    /\ Alive
    /\ calls[c].pc = "append"
    /\ IF DOMAIN topicCallbacks = {}
       THEN /\ calls' = [calls EXCEPT ![c].pc = "panic"]
            /\ UNCHANGED <<topicCallbacks, topicCallbackMu, returned>>
       ELSE /\ topicCallbacks' = Register(topicCallbacks, calls[c].topics,
                                          calls[c].cb)
            /\ topicCallbackMu' = [topicCallbackMu EXCEPT !.w = 0]
            /\ WatchReturn(c, NoErr)
    /\ UNCHANGED <<listenerOnce, listener, pg, watch, closing, log>>
    /\ UNCHANGED <<cacheVars, helperVars>>

\* Operator.Notify(ctx, topic, payload): NOTIFY topic, payload.  The server
\* puts the notification on the connection of a listener that listens to
\* the topic.  pg.pub keeps what was published, which callbacks were
\* registered under the topic and which Watch calls had returned then;
\* pg.rejected tells whether the backend refused the last NOTIFY.
Notify(topic, payload, fail) ==
    /\ pg.tried < MaxNotify
    /\ IF fail \/ pg.closed
       THEN /\ pg' = [pg EXCEPT
                         !.tried = @ + 1,
                         !.rejected = TRUE,
                         !.err = Wrap("op.core.ExecContext",
                                      IF pg.closed
                                      THEN <<"pg: database is closed">>
                                      ELSE <<BackendErr>>)]
            /\ UNCHANGED listener
       ELSE LET n == pg.tried + 1
                note == [channel |-> topic, payload |-> payload, n |-> n]
                regs == IF topic \in DOMAIN topicCallbacks
                        THEN topicCallbacks[topic] ELSE <<>>
            IN  /\ pg' = [pg EXCEPT !.tried = n, !.err = NoErr,
                                    !.rejected = FALSE,
                                    !.pub = Append(@, [note |-> note,
                                                       regs |-> regs,
                                                       returned |-> returned])]
                /\ listener' = IF listener.made > 0 /\ ~listener.closed
                                  /\ topic \in listener.subs
                               THEN [listener EXCEPT !.conn = Append(@, note)]
                               ELSE listener
    /\ UNCHANGED <<listenerOnce, topicCallbacks, topicCallbackMu, calls,
                   returned, watch, closing, log>>
    /\ UNCHANGED <<cacheVars, helperVars>>

\* the listener's task, started by Channel(): it reads the next
\* notification off the connection and sends it into the channel
ListenerReceive ==
    /\ Alive
    /\ listener.chOpen = "open"
    /\ ~listener.closed
    /\ ~pg.closed
    /\ listener.conn # <<>>
    /\ listener' = [listener EXCEPT !.conn = Tail(@),
                                    !.ch = Append(@, Head(listener.conn))]
    /\ UNCHANGED <<listenerOnce, topicCallbacks, topicCallbackMu, pg, calls,
                   returned, watch, closing, log>>
    /\ UNCHANGED <<cacheVars, helperVars>>

\* the listener's task ending without closing the channel
ListenerExitChannelLeftOpen ==
    /\ Alive
    /\ listener.chOpen = "open"
    /\ listener.closed
    /\ listener' = [listener EXCEPT !.chOpen = "abandoned"]
    /\ UNCHANGED <<listenerOnce, topicCallbacks, topicCallbackMu, pg, calls,
                   returned, watch, closing, log>>
    /\ UNCHANGED <<cacheVars, helperVars>>

\* the listener's task finds the listener closed: it closes the channel
\* and ends
ListenerExit ==
    /\ Alive
    /\ listener.chOpen = "open"
    /\ listener.closed
    /\ listener' = [listener EXCEPT !.chOpen = "closed"]
    /\ UNCHANGED <<listenerOnce, topicCallbacks, topicCallbackMu, pg, calls,
                   returned, watch, closing, log>>
    /\ UNCHANGED <<cacheVars, helperVars>>

\* DB.watch: channel := db.listener.Channel()
WatchChannel ==
    /\ Alive
    /\ watch.pc = "channel"
    /\ listener' = [listener EXCEPT
                       !.chOpen = IF @ = "none" THEN "open" ELSE @]
    /\ watch' = [watch EXCEPT !.pc = "range"]
    /\ UNCHANGED <<listenerOnce, topicCallbacks, topicCallbackMu, pg, calls,
                   returned, closing, log>>
    /\ UNCHANGED <<cacheVars, helperVars>>

\* for notify := range channel: the next notification is taken
WatchRange ==
    /\ Alive
    /\ watch.pc = "range"
    /\ listener.ch # <<>>
    /\ listener' = [listener EXCEPT !.ch = Tail(@)]
    /\ watch' = [watch EXCEPT !.pc = "rlock", !.notify = Head(listener.ch),
                              !.cbs = <<>>, !.idx = 0, !.ctx = NoContext]
    /\ log' = Append(log, [notify |-> Head(listener.ch), cbs |-> <<>>,
                           calls |-> <<>>, ctxs |-> <<>>, looked |-> FALSE,
                           done |-> FALSE])
    /\ UNCHANGED <<listenerOnce, topicCallbacks, topicCallbackMu, pg, calls,
                   returned, closing>>
    /\ UNCHANGED <<cacheVars, helperVars>>

\* for notify := range channel: the channel is closed and empty, the loop
\* and DB.watch end
WatchExit ==
    /\ Alive
    /\ watch.pc = "range"
    /\ listener.ch = <<>>
    /\ listener.chOpen = "closed"
    /\ watch' = [watch EXCEPT !.pc = "exited"]
    /\ UNCHANGED <<listenerOnce, listener, topicCallbacks, topicCallbackMu, pg,
                   calls, returned, closing, log>>
    /\ UNCHANGED <<cacheVars, helperVars>>

\* getWatchCallbacks: RLock and cbs = db.topicCallbacks[topic]
GetWatchCallbacksRLock ==
    /\ Alive
    /\ watch.pc = "rlock"
    /\ topicCallbackMu.w = 0
    /\ topicCallbackMu' = [topicCallbackMu EXCEPT !.r = @ + 1]
    /\ LET cbs == IF watch.notify.channel \in DOMAIN topicCallbacks
                  THEN topicCallbacks[watch.notify.channel] ELSE <<>>
       IN  /\ watch' = [watch EXCEPT !.pc = "runlock", !.cbs = cbs]
           /\ log' = [log EXCEPT ![Len(log)].cbs = cbs,
                                 ![Len(log)].looked = TRUE]
    /\ UNCHANGED <<listenerOnce, listener, topicCallbacks, pg, calls, returned,
                   closing>>
    /\ UNCHANGED <<cacheVars, helperVars>>

\* getWatchCallbacks returning with the read lock still held
GetWatchCallbacksKeepsRLock ==
    /\ Alive
    /\ watch.pc = "runlock"
    /\ watch' = [watch EXCEPT
                    !.pc = "loop", !.idx = 0, !.made = @ + 1,
                    !.ctx = WithTimeout("Background", CallbackTimeout,
                                        watch.made)]
    /\ UNCHANGED <<listenerOnce, listener, topicCallbacks, topicCallbackMu, pg,
                   calls, returned, closing, log>>
    /\ UNCHANGED <<cacheVars, helperVars>>

\* getWatchCallbacks returns (the deferred RUnlock runs); ctx, cancel :=
\* context.WithTimeout(context.Background(), 10*time.Second)
GetWatchCallbacksRUnlock ==
    /\ Alive
    /\ watch.pc = "runlock"
    /\ topicCallbackMu' = [topicCallbackMu EXCEPT !.r = @ - 1]
    /\ watch' = [watch EXCEPT
                    !.pc = "loop", !.idx = 0, !.made = @ + 1,
                    !.ctx = WithTimeout("Background", CallbackTimeout,
                                        watch.made)]
    /\ UNCHANGED <<listenerOnce, listener, topicCallbacks, pg, calls, returned,
                   closing, log>>
    /\ UNCHANGED <<cacheVars, helperVars>>

\* the callbacks of a snapshot taken newest first
NextCallbackReversed(cbs, idx) == cbs[Len(cbs) - idx]

\* for _, cb := range cbs: the callback of the turn after idx turns
NextCallback(cbs, idx) == cbs[idx + 1]

\* a loop over cbs that ends after the first callback
RangeOverAfterFirst(cbs, idx) == idx = Len(cbs) \/ idx >= 1

\* for _, cb := range cbs is through after idx turns
RangeOver(cbs, idx) == idx = Len(cbs)

\* cb(ctx, notify) is called
WatchCall ==
    /\ Alive
    /\ watch.pc = "loop"
    /\ ~RangeOver(watch.cbs, watch.idx)
    /\ watch' = [watch EXCEPT !.pc = "callback"]
    /\ log' = [log EXCEPT ![Len(log)].calls =
                              Append(@, NextCallback(watch.cbs, watch.idx)),
                          ![Len(log)].ctxs = Append(@, watch.ctx.id)]
    /\ UNCHANGED <<listenerOnce, listener, topicCallbacks, topicCallbackMu, pg,
                   calls, returned, closing>>
    /\ UNCHANGED <<cacheVars, helperVars>>

\* a dispatch loop that reads the registry again after every callback
CallbackReturnRefreshing(panics) ==
    /\ Alive
    /\ watch.pc = "callback"
    /\ watch' = [watch EXCEPT
                    !.pc = "loop", !.idx = @ + 1,
                    !.cbs = IF watch.notify.channel \in DOMAIN topicCallbacks
                            THEN topicCallbacks[watch.notify.channel]
                            ELSE <<>>]
    /\ UNCHANGED <<listenerOnce, listener, topicCallbacks, topicCallbackMu, pg,
                   calls, returned, closing, log>>
    /\ UNCHANGED <<cacheVars, helperVars>>

\* the callback returns, or panics: DB.watch has no recover, so the panic
\* unwinds the dispatch task and ends the process
CallbackReturn(panics) ==
    /\ Alive
    /\ watch.pc = "callback"
    /\ watch' = IF panics THEN [watch EXCEPT !.pc = "crashed"]
                ELSE [watch EXCEPT !.pc = "loop", !.idx = @ + 1]
    /\ UNCHANGED <<listenerOnce, listener, topicCallbacks, topicCallbackMu, pg,
                   calls, returned, closing, log>>
    /\ UNCHANGED <<cacheVars, helperVars>>

\* the loop over cbs is over: cancel(), back to the channel
WatchCancel ==
    /\ Alive
    /\ watch.pc = "loop"
    /\ RangeOver(watch.cbs, watch.idx)
    /\ watch' = [watch EXCEPT !.pc = "range", !.ctx.cancelled = TRUE]
    /\ log' = [log EXCEPT ![Len(log)].done = TRUE]
    /\ UNCHANGED <<listenerOnce, listener, topicCallbacks, topicCallbackMu, pg,
                   calls, returned, closing>>
    /\ UNCHANGED <<cacheVars, helperVars>>

\* the 10 seconds of the context of the notification are over while its
\* callbacks are at work: the context ends with DeadlineExceeded
ContextExpire ==
    /\ Alive
    /\ watch.pc \in {"loop", "callback"}
    /\ watch.ctx.err = NoErr
    /\ ~watch.ctx.cancelled
    /\ watch' = [watch EXCEPT !.ctx.err = <<"context deadline exceeded">>]
    /\ UNCHANGED <<listenerOnce, listener, topicCallbacks, topicCallbackMu, pg,
                   calls, returned, closing, log>>
    /\ UNCHANGED <<cacheVars, helperVars>>

\* DB.Close: if db.listener != nil { db.listener.Close() }.  The field is
\* read without synchronisation: Close sees the listener or nil, as the
\* read falls after or before the assignment in the Once.
CloseListener ==
    /\ Alive
    /\ closing = "idle"
    /\ listener' = IF listener.made > 0
                   THEN [listener EXCEPT !.closed = TRUE]
                   ELSE listener
    /\ closing' = "pg"
    /\ UNCHANGED <<listenerOnce, topicCallbacks, topicCallbackMu, pg, calls,
                   returned, watch, log>>
    /\ UNCHANGED <<cacheVars, helperVars>>

\* DB.Close: db.pg.Close(), and Close returns
ClosePg ==
    /\ Alive
    /\ closing = "pg"
    /\ pg' = [pg EXCEPT !.closed = TRUE]
    /\ closing' = "done"
    /\ UNCHANGED <<listenerOnce, listener, topicCallbacks, topicCallbackMu,
                   calls, returned, watch, log>>
    /\ UNCHANGED <<cacheVars, helperVars>>

----------------------------------------------------------------------------
(* metric.newStatsKey.  Strings are sequences of one-character strings.    *)

\* const sep = "."
sep == <<".">>

\* strings.Index(s, substr): the index from 0 of the first occurrence
Index(s, substr) ==
    LET n    == Len(substr)
        idxs == {i \in 0..(Len(s) - n) : SubSeq(s, i + 1, i + n) = substr}
    IN  IF idxs = {} THEN -1 ELSE CHOOSE i \in idxs : \A j \in idxs : i <= j

\* strings.LastIndex(s, substr): the index from 0 of the last occurrence
\* of substr in s, -1 when there is none
LastIndex(s, substr) ==
    LET n    == Len(substr)
        idxs == {i \in 0..(Len(s) - n) : SubSeq(s, i + 1, i + n) = substr}
    IN  IF idxs = {} THEN -1 ELSE CHOOSE i \in idxs : \A j \in idxs : i >= j

\* the zero stats.Key
ZeroKey == [Measure |-> <<>>, Field |-> <<>>]

\* newStatsKey(prefix, name)
newStatsKey(prefix, name) ==
    LET word   == IF prefix # <<>> THEN prefix \o sep \o name ELSE name
        sepIdx == LastIndex(word, sep)
    IN  IF sepIdx = -1
        THEN [ZeroKey EXCEPT !.Field = word]
        ELSE [Measure |-> SubSeq(word, 1, sepIdx),
              Field |-> SubSeq(word, sepIdx + 2, Len(word))]

\* no call of newStatsKey yet
NoStats == [prefix |-> <<>>, name |-> <<>>, key |-> ZeroKey, called |-> FALSE]

\* gotKey := newStatsKey(tt.prefix, tt.name)
CallNewStatsKey ==
    /\ ~stats.called
    /\ stats' = [stats EXCEPT !.key = newStatsKey(stats.prefix, stats.name),
                              !.called = TRUE]
    /\ UNCHANGED <<cacheVars, muxVars, lr>>

----------------------------------------------------------------------------
(* limitreader.Reader over an underlying io.Reader.  Of the stream only    *)
(* the number of bytes left is kept, of a buffer p only len(p).            *)

\* no error
Nil == NoErr

\* io.EOF
EOF == <<"EOF">>

\* fmt.Errorf("stream bigger than threshold %d bytes", lr.originalLimit)
ErrThreshold(limit) == <<"stream bigger than threshold", limit>>

\* NewReader(r, limit) on a stream of length bytes
NewReader(length, limit) ==
    [r |-> length, left |-> limit, originalLimit |-> limit, n |-> 0,
     err |-> Nil, total |-> 0, reads |-> "none"]

\* the reader of the specifications that do not read
NoReader == NewReader(0, 0)

\* what lr.r.Read(p) can return for a buffer of plen bytes when the stream
\* has left bytes to give: [n, err].  A read into an empty buffer gives
\* (0, nil), at the end of the stream possibly (0, EOF); a read into a
\* buffer with room gives one or more bytes, or (0, EOF) at the end.
UnderlyingRead(left, plen) ==
    IF plen = 0
    THEN {[n |-> 0, err |-> Nil]}
            \cup (IF left = 0 THEN {[n |-> 0, err |-> EOF]} ELSE {})
    ELSE IF left = 0 THEN {[n |-> 0, err |-> EOF]}
    ELSE {[n |-> k, err |-> Nil] : k \in 1..(IF plen < left THEN plen ELSE left)}

\* Reader.Read(p) with len(p) = plen, the underlying Read returning got:
\* the reader afterwards, n and err being what the call returned
ReaderRead(rd, plen, got) ==
    IF rd.left < 0
    THEN [rd EXCEPT !.n = 0, !.err = ErrThreshold(rd.originalLimit),
                    !.reads = "error"]
    ELSE [rd EXCEPT !.r = @ - got.n, !.left = @ - got.n, !.n = got.n,
                    !.err = got.err, !.total = @ + got.n, !.reads = "read"]

\* the buffer the underlying reader is given: p, or p[0:lr.left]
Clipped(rd, plen) == IF plen > rd.left THEN rd.left ELSE plen

\* a caller reads into a buffer of plen bytes
CallRead(plen) ==
    /\ \E got \in UnderlyingRead(lr.r, IF lr.left < 0 THEN 0
                                      ELSE Clipped(lr, plen)) :
          lr' = ReaderRead(lr, plen, got)
    /\ UNCHANGED <<cacheVars, muxVars, stats>>

\* the helpers at rest
InitHelpers ==
    /\ stats = NoStats
    /\ lr = NoReader

----------------------------------------------------------------------------
(* Inputs                                                                  *)

Small == Bytes(<<97, 98, 99>>)

\* exactly compressThreshold bytes
AtThreshold == Rep(97, compressThreshold)

\* one byte more
OverThreshold == Rep(97, compressThreshold + 1)

\* caller payloads that start with the gzip magic: a valid member, a short
\* and a long one that are no gzip stream, a truncated member
Framed == Gzip(Small)

MagicShort == Cat(GzipMagic, Rep(97, 5))

MagicLong == Cat(GzipMagic, Rep(255, compressThreshold))

Truncated == Take(Gzip(Small), BLen(Gzip(Small)) - 4)

Payloads == {Small, AtThreshold, OverThreshold, Framed, MagicShort, MagicLong,
             Truncated}

Values == {BoolVal(TRUE), StrVal(Small), StrVal(OverThreshold)}

Dests == {"str", "bool"}

NoCall == Call("", Key("", 0), Empty, 0, "", Empty, NoErr, FALSE, <<>>)

Init ==
    /\ store = <<>>
    /\ now = 0
    /\ last = NoCall
    /\ gwriters = 0
    /\ greaders = 0
    /\ scan = ScanIdle
    /\ InitDB
    /\ InitHelpers

\* Spec: one key, every payload shape, backend failures, the pools; the
\* clock stands still

Next ==
    \/ \E fail \in BOOLEAN : ReadBytes(TheKey, fail)
    \/ \E dest \in Dests, fail \in BOOLEAN : Read(TheKey, dest, fail)
    \/ \E payload \in Payloads, ttl \in {0, TestTTL}, fail \in BOOLEAN :
           UpdateBytes(TheKey, payload, ttl, fail)
    \/ \E payload \in Values, ttl \in {0, TestTTL}, fail \in BOOLEAN :
           Update(TheKey, payload, ttl, fail)
    \/ \E ks \in SUBSET {TheKey}, fail \in BOOLEAN : Revoke(ks, fail)
    \/ PoolGC

Spec == Init /\ [][Next]_vars

\* SpecTTL: one key, the clock, expirations; the backend does not fail
NextTTL ==
    \/ ReadBytes(TheKey, FALSE)
    \/ Read(TheKey, "str", FALSE)
    \/ \E payload \in {Small, OverThreshold}, ttl \in {0, ShortTTL, TestTTL} :
           UpdateBytes(TheKey, payload, ttl, FALSE)
    \/ \E payload \in {StrVal(Small), StrVal(OverThreshold)},
          ttl \in {0, ShortTTL, TestTTL} :
           Update(TheKey, payload, ttl, FALSE)
    \/ Revoke({TheKey}, FALSE)
    \/ Tick

SpecTTL == Init /\ [][NextTTL]_vars
\* SpecRevoke: RevokeByPattern on a key space of up to MaxCache "cache-" and
\* MaxOther "other-" keys, with no other client at work
CacheCounts == {0, 1, BatchLimit, BatchLimit + 1, MaxCache}

OtherCounts == {0, MaxOther}

InitRevoke ==
    /\ \E n \in CacheCounts, m \in OtherCounts :
          store = [k \in {Key("cache-", id) : id \in 1..n}
                           \cup {Key("other-", id) : id \in 1..m}
                     |-> [val |-> Small, exp |-> 0]]
    /\ now = 0
    /\ last = NoCall
    /\ gwriters = 0
    /\ greaders = 0
    /\ scan = ScanIdle
    /\ InitDB
    /\ InitHelpers

NextRevoke ==
    \/ \E pattern \in Patterns, fail \in BOOLEAN :
           RevokeByPatternStart(pattern, fail)
    \/ \E fail \in BOOLEAN : RevokeByPatternFetch(fail)
    \/ \E fail \in BOOLEAN : RevokeByPatternNext(fail)
    \/ \E fail \in BOOLEAN : RevokeByPatternFinish(fail)

SpecRevoke == InitRevoke /\ [][NextRevoke]_vars

\* SpecCalls: one client, one call at a time: a RevokeByPattern call on a
\* full key space and, when it has returned nil, single-key calls; any
\* backend command may fail
InitCalls ==
    /\ store = [k \in {Key("cache-", id) : id \in 1..MaxCache}
                        \cup {Key("other-", id) : id \in 1..MaxOther}
                  |-> [val |-> Small, exp |-> 0]]
    /\ now = 0
    /\ last = NoCall
    /\ gwriters = 0
    /\ greaders = 0
    /\ scan = ScanIdle
    /\ InitDB
    /\ InitHelpers

NextCalls ==
    \/ NextRevoke
    \/ /\ scan.pc = "done"
       /\ \A j \in 1..Len(scan.cmds) : scan.cmds[j].ok
       /\ \/ \E fail \in BOOLEAN : ReadBytes(TheKey, fail)
          \/ \E fail \in BOOLEAN : Read(TheKey, "str", fail)
          \/ \E payload \in {Small, OverThreshold}, fail \in BOOLEAN :
                 UpdateBytes(TheKey, payload, 0, fail)
          \/ \E fail \in BOOLEAN : Update(TheKey, StrVal(Small), 0, fail)
          \/ \E ks \in SUBSET {TheKey}, fail \in BOOLEAN : Revoke(ks, fail)

SpecCalls == InitCalls /\ [][NextCalls]_vars

\* SpecRace: a RevokeByPattern("cache-*") call and a second client that
\* writes keys while the scan is under way: a matching key of the second
\* page, one of the last page, and a key that does not match
RaceKeys == {Key("cache-", 1), Key("cache-", MaxCache), Key("other-", 1)}

InitRace ==
    /\ store = [k \in {Key("cache-", 2), Key("other-", 2)}
                  |-> [val |-> Small, exp |-> 0]]
    /\ now = 0
    /\ last = NoCall
    /\ gwriters = 0
    /\ greaders = 0
    /\ scan = ScanIdle
    /\ InitDB
    /\ InitHelpers

NextRace ==
    \/ RevokeByPatternStart(<<"cache-", "*">>, FALSE)
    \/ RevokeByPatternFetch(FALSE)
    \/ RevokeByPatternFinish(FALSE)
    \/ \E key \in RaceKeys : WriterUpdate(key, StrVal(Small))

SpecRace == InitRace /\ [][NextRace]_vars

\* SpecStatsKey: newStatsKey called once on a prefix and a name: those of
\* Test_newStatsKey and every string of up to MaxWord characters over "a"
\* and "."
W123 == <<"1", "2", "3">>

Wabc == <<"a", "b", "c">>

Wdef == <<"d", "e", "f">>

Wefg == <<"e", "f", "g">>

\* a ++ "." ++ b
Dot(a, b) == a \o <<".">> \o b

MaxWord == 3

ShortWords == UNION {[1..n -> {"a", "."}] : n \in 0..MaxWord}

Prefixes == {<<>>, W123} \cup ShortWords

Names == {<<>>, Wabc, Dot(Wabc, Wdef), Dot(Dot(Wabc, Wdef), Wefg)} \cup ShortWords

InitStatsKey ==
    /\ store = <<>>
    /\ now = 0
    /\ last = NoCall
    /\ gwriters = 0
    /\ greaders = 0
    /\ scan = ScanIdle
    /\ InitDB
    /\ lr = NoReader
    /\ \E prefix \in Prefixes, name \in Names :
          stats = [NoStats EXCEPT !.prefix = prefix, !.name = name]

NextStatsKey == CallNewStatsKey

SpecStatsKey == InitStatsKey /\ [][NextStatsKey]_vars

\* SpecLimitReader: a reader over a stream of up to MaxStream bytes with a
\* limit of up to MaxLimit bytes, read with buffers of up to MaxBuf bytes
\* by a caller that goes on reading into buffers with room
MaxStream == 5

MaxLimit == 4

MaxBuf == 2

InitLimitReader ==
    /\ store = <<>>
    /\ now = 0
    /\ last = NoCall
    /\ gwriters = 0
    /\ greaders = 0
    /\ scan = ScanIdle
    /\ InitDB
    /\ stats = NoStats
    /\ \E length \in 0..MaxStream, limit \in 0..MaxLimit :
          lr = NewReader(length, limit)

NextLimitReader == \E plen \in 0..MaxBuf : CallRead(plen)

SpecLimitReader ==
    /\ InitLimitReader
    /\ [][NextLimitReader]_vars
    /\ WF_vars(\E plen \in 1..MaxBuf : CallRead(plen))

\* the steps of the Watch calls of the tasks cs, called with one of lists;
\* fails holds whether LISTEN may be refused
WatchCalls(cs, lists, fails) ==
    \/ \E c \in cs, topics \in lists : WatchBegin(c, topics)
    \/ \E c \in cs : WatchOnce(c)
    \/ \E c \in cs : WatchOnceListen(c)
    \/ \E c \in cs : WatchOnceGo(c)
    \/ \E c \in cs, fail \in fails : WatchListen(c, fail)
    \/ \E c \in cs : WatchLock(c)
    \/ \E c \in cs : WatchAppend(c)

\* the steps of the dispatch task and of the listener's task while the
\* listener is open
Dispatch ==
    \/ WatchChannel
    \/ ListenerReceive
    \/ WatchRange
    \/ GetWatchCallbacksRLock
    \/ GetWatchCallbacksRUnlock
    \/ WatchCall
    \/ WatchCancel

\* the payload of the next NOTIFY
NextPayload == NotifyPayloads[(pg.tried % Len(NotifyPayloads)) + 1]

\* their steps once the listener is closed
DispatchEnd ==
    \/ ListenerExit
    \/ WatchExit

\* SpecWatch: Watch calls racing from two tasks on a new DB; the dispatch
\* task starts, nothing is published
NextWatch ==
    \/ WatchCalls(Callers, TopicLists, BOOLEAN)
    \/ WatchChannel

SpecWatch == Init /\ [][NextWatch]_vars

\* SpecMux: Watch calls of one task at any time, NOTIFY, dispatch; LISTEN
\* is not refused and callbacks return
NextMux ==
    \/ WatchCalls({1}, TopicLists, {FALSE})
    \/ Dispatch
    \/ CallbackReturn(FALSE)
    \/ \E topic \in Topics, fail \in BOOLEAN : Notify(topic, NextPayload, fail)

SpecMux == Init /\ [][NextMux]_vars

\* SpecMuxLive: SpecMux with the scheduling of the Go runtime: the dispatch
\* task and the listener's task run when they can, a callback returns and
\* a Watch call that holds the lock goes on to release it
SpecMuxLive ==
    /\ Init
    /\ [][NextMux]_vars
    /\ WF_vars(Dispatch)
    /\ WF_vars(CallbackReturn(FALSE))
    /\ WF_vars(\E c \in Callers : WatchAppend(c))

\* SpecClose: DB.Close at any time among the Watch calls of a task on one
\* topic, NOTIFY and dispatch, under the scheduling of the Go runtime
NextClose ==
    \/ WatchCalls({1}, {<<"T1">>}, {FALSE})
    \/ Dispatch
    \/ CallbackReturn(FALSE)
    \/ Notify("T1", NextPayload, FALSE)
    \/ DispatchEnd
    \/ CloseListener
    \/ ClosePg

SpecClose ==
    /\ Init
    /\ [][NextClose]_vars
    /\ WF_vars(Dispatch)
    /\ WF_vars(DispatchEnd)
    /\ WF_vars(CallbackReturn(FALSE))
    /\ WF_vars(\E c \in Callers : WatchAppend(c))

\* SpecMuxPanic: the same with callbacks that may panic
NextMuxPanic ==
    \/ WatchCalls({1}, {<<"T1">>, <<"T2", "T1">>}, {FALSE})
    \/ Dispatch
    \/ \E panics \in BOOLEAN : CallbackReturn(panics)
    \/ \E topic \in Topics, fail \in BOOLEAN : Notify(topic, NextPayload, fail)

SpecMuxPanic == Init /\ [][NextMuxPanic]_vars

\* SpecDeadline: SpecMux with callbacks that may take longer than the
\* deadline of their context
NextDeadline ==
    \/ WatchCalls({1}, {<<"T1">>, <<"T2", "T1">>}, {FALSE})
    \/ Dispatch
    \/ CallbackReturn(FALSE)
    \/ ContextExpire
    \/ \E topic \in Topics : Notify(topic, NextPayload, FALSE)

SpecDeadline == Init /\ [][NextDeadline]_vars

\* the caller task that stands for the running callback: a Watch call it
\* makes runs in the dispatch task, between the call of the callback and
\* its return
InCallback == 2

\* the running callback calls db.Watch(ctx, callback, topic...)
CallbackWatch(topics) ==
    /\ watch.pc = "callback"
    /\ WatchBegin(InCallback, topics)

\* the running callback returns, any Watch call it made having returned
CallbackDone ==
    /\ calls[InCallback].pc = "idle"
    /\ CallbackReturn(FALSE)

\* the steps of the Watch call of the running callback (the Once is done
\* by the time a callback runs)
CallbackCalls ==
    \/ WatchOnce(InCallback)
    \/ WatchListen(InCallback, FALSE)
    \/ WatchLock(InCallback)
    \/ WatchAppend(InCallback)

\* SpecReentrant: callbacks that call Watch, beside the Watch calls of a
\* task of its own, NOTIFY and dispatch, under the scheduling of the Go
\* runtime
NextReentrant ==
    \/ WatchCalls({1}, {<<"T1">>, <<"T2">>}, {FALSE})
    \/ \E topics \in {<<"T1">>, <<"T2">>} : CallbackWatch(topics)
    \/ CallbackCalls
    \/ CallbackDone
    \/ Dispatch
    \/ \E topic \in Topics : Notify(topic, NextPayload, FALSE)

SpecReentrant ==
    /\ Init
    /\ [][NextReentrant]_vars
    /\ WF_vars(Dispatch)
    /\ WF_vars(CallbackCalls)
    /\ WF_vars(CallbackDone)
    /\ WF_vars(\E c \in Callers : WatchAppend(c))

----------------------------------------------------------------------------
(* Properties of the cache-aside store                                     *)

\* the last call was a successful write of the key, which is still stored
Wrote == /\ last.op \in {"Update", "UpdateBytes"}
         /\ last.err = NoErr
         /\ last.key \in DOMAIN store

\* the bytes the last write handed to UpdateBytes
Written == IF last.op = "Update" THEN Marshal(last.arg) ELSE last.arg

\* the bytes the backend holds under the key of the last call
Stored == store[last.key].val

\* b starts with the three bytes 0x1F 0x8B 0x08
HasMagic(b) == Take(b, 3) = Bytes(<<31, 139, 8>>)

\* C1: for every payload p of at most 4096 bytes, UpdateBytes(k, p, ttl)
\* followed by ReadBytes(k) returns exactly p, and the bytes stored under k
\* do not begin with the gzip magic.
C1_SmallRoundTrip ==
    (Wrote /\ last.op = "UpdateBytes" /\ BLen(last.arg) <= 4096)
        => /\ ~HasMagic(Stored)
           /\ ReadBytesCall(last.key, FALSE).err = NoErr
           /\ ReadBytesCall(last.key, FALSE).b = last.arg

\* C2: for every payload p of more than 4096 bytes, after UpdateBytes(k, p,
\* ttl) the stored bytes begin with the gzip magic and ReadBytes(k) returns
\* exactly p.
C2_LargeRoundTrip ==
    (Wrote /\ last.op = "UpdateBytes" /\ BLen(last.arg) > 4096)
        => /\ HasMagic(Stored)
           /\ ReadBytesCall(last.key, FALSE).err = NoErr
           /\ ReadBytesCall(last.key, FALSE).b = last.arg

\* C3: a payload is gzip-wrapped by a write exactly when it is longer than
\* 4096 bytes and does not already start with the gzip magic; otherwise it
\* is stored as it is (4096 bytes exactly: not compressed; already framed:
\* not compressed again).
C3_CompressIffLargeAndUnframed ==
    Wrote =>
        /\ shouldCompress(Written) <=> (BLen(Written) > 4096 /\ ~HasMagic(Written))
        /\ (BLen(Written) > 4096 /\ ~HasMagic(Written)) => Stored = Gzip(Written)
        /\ (BLen(Written) <= 4096 \/ HasMagic(Written)) => Stored = Written

\* a payload of exactly 4096 bytes has been written and is stored as it is
C3_Witness ==
    /\ Wrote
    /\ BLen(Written) = 4096
    /\ Stored = Written

\* C4: Read and ReadBytes of a key that is not in the backend (never written,
\* expired or revoked) return an error that errors.Is recognises as
\* redis.Nil, and leave the backend as it was.
C4_MissIsNotFound ==
    [][(TheKey \notin DOMAIN store
        /\ (ReadBytes(TheKey, FALSE) \/ Read(TheKey, "str", FALSE)))
          => (ErrorsIs(last'.err, RedisNil) /\ store' = store)]_vars

\* a Read of the key after it expired returned NotFound
C4_Witness ==
    /\ last.op = "Read"
    /\ last.key \notin DOMAIN store
    /\ now > 0
    /\ ErrorsIs(last.err, RedisNil)

\* C5: after a successful Update or UpdateBytes of k, whatever k held
\* before, Read or ReadBytes of k returns the value just written.
C5_LastWriterWins ==
    Wrote =>
        IF last.op = "UpdateBytes"
        THEN /\ ReadBytesCall(last.key, FALSE).err = NoErr
             /\ ReadBytesCall(last.key, FALSE).b = last.arg
        ELSE /\ ReadCall(last.key, last.arg.t, FALSE).err = NoErr
             /\ ReadCall(last.key, last.arg.t, FALSE).val = last.arg

\* C6: Revoke of keys returns no error whether or not they exist, a second
\* Revoke of the same keys returns no error either, and a Read of a revoked
\* key fails with NotFound.
C6_RevokeIdempotent ==
    (last.op = "Revoke" /\ ~last.fail /\ last.key # {})
        => /\ last.err = NoErr
           /\ RevokeCall(last.key, FALSE).err = NoErr
           /\ RevokeCall(last.key, FALSE).store = store
           /\ \A k \in last.key :
                 /\ k \notin DOMAIN store
                 /\ ErrorsIs(ReadCall(k, "str", FALSE).err, RedisNil)
                 /\ ErrorsIs(ReadBytesCall(k, FALSE).err, RedisNil)

\* the key has been revoked without error
C6_Witness ==
    /\ last.op = "Revoke"
    /\ last.key = {TheKey}
    /\ ~last.fail
    /\ last.err = NoErr

\* C7: a successful write stores the key with the caller's expiration: none
\* for 0 (TTL reports -1), and for 20 s a TTL query made less than 2 s later
\* reports at most 20 s and more than 18 s; compressed or not.
C7_ExpirationAsGiven ==
    (last.op \in {"Update", "UpdateBytes"} /\ last.err = NoErr)
        => /\ last.ttl = 0 => RedisTTL(last.key) = -1
           /\ (last.ttl > 0 /\ now < last.at + last.ttl)
                 => RedisTTL(last.key) = last.at + last.ttl - now
           /\ (last.ttl = TestTTL /\ now - last.at < 2)
                 => (RedisTTL(last.key) <= 20 /\ RedisTTL(last.key) > 18)

\* a compressed value written with 20 s to live, asked for its TTL a second
\* later
C7_Witness ==
    /\ last.op = "Update"
    /\ last.err = NoErr
    /\ last.ttl = TestTTL
    /\ now = last.at + 1
    /\ HasMagic(Stored)
    /\ RedisTTL(last.key) = 19

\* C8: with no other client writing, when RevokeByPattern returns without
\* error every key that matched the pattern when the call began is gone and
\* every other key is still there with its value and expiry, however many
\* keys match (several SCAN pages, several rounds of delete).
C8_PatternRevokesExactlyMatches ==
    (scan.pc = "done" /\ last.op = "RevokeByPattern" /\ last.err = NoErr)
        => /\ DOMAIN store \subseteq DOMAIN scan.before
           /\ \A k \in DOMAIN scan.before :
                 IF Match(scan.pattern, k)
                 THEN k \notin DOMAIN store
                 ELSE k \in DOMAIN store /\ store[k] = scan.before[k]

\* a call that matched more than 1000 keys among others that did not match
\* has returned after two rounds of delete
C8_Witness ==
    /\ scan.pc = "done"
    /\ last.op = "RevokeByPattern"
    /\ last.err = NoErr
    /\ scan.pattern = <<"cache-", "*">>
    /\ Cardinality({k \in DOMAIN scan.before : Match(scan.pattern, k)}) > 1000
    /\ Cardinality({k \in DOMAIN scan.before : ~Match(scan.pattern, k)}) > 0
    /\ scan.unlinks = 2
    /\ DOMAIN store = {k \in DOMAIN scan.before : ~Match(scan.pattern, k)}

\* C9: every error returned because a backend command failed is the backend
\* error wrapped with a label naming the failing operation.
C9_BackendErrorsWrapped ==
    last.fail => /\ Len(last.err) >= 2
                 /\ last.err[Len(last.err)] = BackendErr

\* the stored bytes carry the gzip magic and do not gunzip
CannotGunzip(raw) ==
    /\ HasMagic(raw)
    /\ \/ ReadHeader(raw) # NoErr
       \/ Inflate(raw).err # NoErr

\* the stored bytes, gunzipped if framed, do not decode into dest
CannotDecode(raw, dest) ==
    /\ ~CannotGunzip(raw)
    /\ Unmarshal(IF HasMagic(raw) THEN Inflate(raw).out ELSE raw, dest).err # NoErr

\* C10: when the key exists and its bytes do not gunzip, or do not decode
\* into the destination, Read and ReadBytes return an error that is not
\* NotFound.
C10_CorruptIsAnError ==
    (last.op \in {"Read", "ReadBytes"} /\ ~last.fail /\ last.key \in DOMAIN store)
        => /\ CannotGunzip(Stored)
                => (last.err # NoErr /\ ~ErrorsIs(last.err, RedisNil))
           /\ (last.op = "Read" /\ CannotDecode(Stored, last.dest))
                => (last.err # NoErr /\ ~ErrorsIs(last.err, RedisNil))
           /\ last.err = NoErr
                => /\ ~CannotGunzip(Stored)
                   /\ last.op = "ReadBytes"
                        => last.out = (IF HasMagic(Stored) THEN Inflate(Stored).out
                                       ELSE Stored)

\* ReadBytes met a truncated gzip member
C10_Witness ==
    /\ last.op = "ReadBytes"
    /\ last.key \in DOMAIN store
    /\ Stored = Truncated
    /\ last.err = <<"io.Copy", "unexpected EOF">>

----------------------------------------------------------------------------
(* Properties of the notification multiplexer                              *)

\* the callbacks registered under topic t (none in a nil map)
Registered(t) == IF t \in DOMAIN topicCallbacks THEN topicCallbacks[t] ELSE <<>>

\* how many times x occurs in the sequence seq
Count(x, seq) == Cardinality({j \in 1..Len(seq) : seq[j] = x})

\* C11: however many Watch calls race to be the first on a new DB, one
\* listener and one dispatch task are created and never a second one, no
\* call reaches db.listener.Listen before db.listener is set, and the
\* callback of every such call that returns without error is registered
\* under each of its topics.
C11_OneListenerOneTask ==
    /\ listener.made <= 1
    /\ watch.tasks <= 1
    /\ \A c \in Callers :
          /\ calls[c].pc # "panic"
          /\ calls[c].pc \in {"listen", "lock", "append"}
                => (listener.made = 1 /\ watch.tasks = 1)
    /\ \A j \in 1..Len(returned) :
          /\ listener.made = 1
          /\ watch.tasks = 1
          /\ (returned[j].racing /\ returned[j].err = NoErr)
                => \A t \in Range(returned[j].topics) :
                      returned[j].cb \in Range(Registered(t))

\* two calls that both found the Once not yet done have returned without
\* error, the later one first
C11_Witness ==
    /\ Len(returned) = 2
    /\ returned[1].cb = "B"
    /\ returned[2].cb = "A"
    /\ \A j \in 1..2 : returned[j].racing /\ returned[j].err = NoErr
    /\ listener.made = 1
    /\ watch.tasks = 1
    /\ \A j \in 1..2 : \A t \in Range(returned[j].topics) :
          returned[j].cb \in Range(Registered(t))

\* the callbacks that were registered under its topic when notification
\* number n was published
RegsAtPublish(n) ==
    (CHOOSE p \in Range(pg.pub) : p.note.n = n).regs

\* a is a prefix of b
IsPrefix(a, b) == Len(a) <= Len(b) /\ SubSeq(b, 1, Len(a)) = a

\* C12: for every notification taken from the channel the dispatch loop
\* calls exactly the callbacks registered under its topic when it looks
\* them up, each registration once and in registration order, and none
\* registered only under other topics (A then B on T1 and C on {T1, T2}:
\* T1 calls A, B, C in that order, a later T2 calls only C).
C12_FanOutInRegistrationOrder ==
    \A k \in 1..Len(log) :
       LET e == log[k]
           t == e.notify.channel
       IN  /\ ~e.looked => e.calls = <<>>
           /\ IsPrefix(e.calls, e.cbs)
           /\ e.done => e.calls = e.cbs
           /\ IsPrefix(e.cbs, Registered(t))
           /\ e.looked => IsPrefix(RegsAtPublish(e.notify.n), e.cbs)
           /\ \A j \in 1..Len(e.calls) : e.calls[j] \in Range(Registered(t))

\* A and B are registered on T1 and C on T1 and T2; a notification on T1
\* has called A, B, C and a later one on T2 only C
C12_Witness ==
    /\ Registered("T1") = <<"A", "B", "C">>
    /\ Registered("T2") = <<"C">>
    /\ Len(log) = 2
    /\ log[1].notify.channel = "T1"
    /\ log[1].done
    /\ log[1].calls = <<"A", "B", "C">>
    /\ log[2].notify.channel = "T2"
    /\ log[2].done
    /\ log[2].calls = <<"C">>

\* the notifications dispatched, in the channel and on the connection, in
\* that order
Pipeline ==
    [k \in 1..Len(log) |-> log[k].notify] \o listener.ch \o listener.conn

\* C14: notifications are dispatched one at a time in the order the
\* channel delivers them, whatever their topics: a notification is taken
\* only when every callback of the one before has returned, so a callback
\* that has not returned holds up every later notification.
C14_OneNotificationAtATime ==
    [][/\ \A k \in 1..Len(Pipeline') :
             \A l \in 1..Len(Pipeline') :
                k < l => Pipeline'[k].n < Pipeline'[l].n
       /\ \A k \in 1..(Len(log') - 1) :
             log'[k].done /\ log'[k].calls = log'[k].cbs
       /\ watch'.pc \in {"rlock", "runlock", "loop", "callback"}
             => ~log'[Len(log')].done
       /\ Len(log') > Len(log)
             => /\ watch.pc = "range"
                /\ Len(log') = Len(log) + 1
                /\ log'[Len(log')].notify = Head(listener.ch)
       /\ (watch.pc = "callback" /\ watch'.pc = "callback") => log' = log]_vars

\* a notification on T2 was dispatched to its callbacks, then one on T1,
\* whose first callback has not returned yet
C14_Witness ==
    /\ Len(log) = 2
    /\ log[1].notify.channel = "T2"
    /\ log[1].calls # <<>>
    /\ log[1].done
    /\ log[2].notify.channel = "T1"
    /\ Len(log[2].cbs) > 1
    /\ Len(log[2].calls) = 1
    /\ watch.pc = "callback"

\* notification number n was published
Published(n) == \E p \in Range(pg.pub) : p.note.n = n

\* what was published as notification number n
PubOf(n) == CHOOSE p \in Range(pg.pub) : p.note.n = n

\* the dispatch of notification number n is through
Dispatched(n) == \E k \in 1..Len(log) : log[k].notify.n = n /\ log[k].done

\* C16 (what is called): a dispatched notification is one that was
\* published, with its channel and payload, and is dispatched once; a
\* callback whose Watch had returned without error before the NOTIFY is
\* called once per registration under the topic; no callback is called
\* that is not registered under the topic, and none more often than it is
\* registered; a NOTIFY the backend rejects returns a wrapped error and
\* publishes nothing.
C16_Calls ==
    /\ \A k \in 1..Len(log) :
          LET e == log[k]
              t == e.notify.channel
          IN  /\ Published(e.notify.n)
              /\ PubOf(e.notify.n).note = e.notify
              /\ e.notify.payload = NotifyPayloads[e.notify.n]
              /\ \A l \in 1..Len(log) : l # k => log[l].notify.n # e.notify.n
              /\ \A cb \in Range(e.calls) :
                    \E j \in 1..Len(returned) :
                       /\ returned[j].cb = cb
                       /\ returned[j].err = NoErr
                       /\ Count(cb, e.calls) <= Count(t, returned[j].topics)
              /\ e.done =>
                    \A j \in 1..Len(PubOf(e.notify.n).returned) :
                       LET r == PubOf(e.notify.n).returned[j]
                       IN  r.err = NoErr
                              => Count(r.cb, e.calls) = Count(t, r.topics)
    /\ pg.rejected => (Len(pg.err) = 2 /\ pg.err[2] = BackendErr)
    /\ Len(pg.pub) <= pg.tried
    /\ pg.rejected => ~Published(pg.tried)

\* C16: once Watch(cb, T) has returned without error, every later NOTIFY
\* of T that succeeds leads to its dispatch, in which cb is called once per
\* registration under T with channel T and the payload sent; a NOTIFY of
\* a topic cb is not registered under never calls cb; a rejected NOTIFY
\* returns an error.
C16_NotifyReachesWatchers ==
    /\ []C16_Calls
    /\ \A n \in 1..MaxNotify :
          (Published(n) /\ PubOf(n).regs # <<>>) ~> Dispatched(n)

\* B was registered by Watch(B, T1, T1) after A on T1; the NOTIFY of T1
\* that followed has been dispatched: A once, B twice, with its payload
C16_Witness ==
    /\ Len(log) = 1
    /\ log[1].done
    /\ log[1].notify = [channel |-> "T1", payload |-> "p1", n |-> 1]
    /\ PubOf(1).regs = <<"A", "B", "B">>
    /\ log[1].calls = <<"A", "B", "B">>
    /\ pg.rejected

\* C17: after Close on a multiplexer whose dispatch task runs, the
\* listener is closed and the dispatch loop ends; a callback that is
\* running when Close is called is left to return; once the loop has ended
\* no callback is called.
C17_CloseEndsDispatch ==
    /\ [][(closing = "idle" /\ closing' = "pg" /\ listener.made > 0)
            => (listener'.closed /\ watch' = watch /\ log' = log)]_vars
    /\ [][watch.pc = "exited" => (watch' = watch /\ log' = log)]_vars
    /\ (listener.closed /\ watch.pc = "callback") ~> (watch.pc # "callback")
    /\ (listener.closed /\ watch.tasks = 1) ~> (watch.pc = "exited")

\* Close has closed the listener while the first of the two callbacks of
\* a notification is running
C17_Witness ==
    /\ closing = "pg"
    /\ listener.closed
    /\ watch.pc = "callback"
    /\ Len(log) = 1
    /\ Len(log[1].cbs) = 2
    /\ Len(log[1].calls) = 1

\* C18: Closed is terminal: however Close and the Watch calls fall, once
\* Close has returned no listener is left open and no dispatch loop runs
\* or takes a notification.
C18_ClosedIsTerminal ==
    closing = "done"
       => /\ listener.made > 0 => listener.closed
          /\ watch.pc \in {"none", "exited"}
          /\ \A c \in Callers : calls[c].pc \notin {"f_listen", "f_go"}

\* C15: a callback that panics does not end the dispatch task: the
\* failure is caught where the callback is called, the callbacks that
\* remain for the notification and the notifications that follow are
\* still dispatched, and nothing is reported upward.
C15_PanicIsContained ==
    /\ watch.pc # "crashed"
    /\ Alive

\* C13 as stated: Watch only ever appends to a topic's callback sequence,
\* and a successful Watch(cb, t1..tn) leaves cb exactly once in the
\* sequence of each topic it names.
C13_OncePerNamedTopic ==
    \A j \in 1..Len(returned) :
       returned[j].err = NoErr
          => \A t \in Range(returned[j].topics) :
                Count(returned[j].cb, Registered(t)) = 1

\* C13, amended: across every interleaving of Watch calls each topic's
\* callback sequence only grows at its end (nothing is removed, replaced
\* or reordered), and a successful Watch(cb, t1..tn) appends cb once for
\* every occurrence of a topic among t1..tn: twice when the topic is named
\* twice, not at all under a topic it does not name.
C13_WatchIsAdditive ==
    [][/\ \A t \in Topics : IsPrefix(Registered(t), Registered(t)')
       /\ \A j \in 1..Len(returned') :
             returned'[j].err = NoErr
                => \A t \in Topics :
                      Count(returned'[j].cb, Registered(t)')
                         = Count(t, returned'[j].topics)]_vars

\* A was registered on T1, then B by Watch(B, T1, T1), then C on T2 and T1
C13_Witness ==
    /\ Len(returned) = 3
    /\ \A j \in 1..3 : returned[j].err = NoErr
    /\ Registered("T1") = <<"A", "B", "B", "C">>
    /\ Registered("T2") = <<"C">>

\* C19: RevokeByPattern deletes in batches of 1000: no UNLINK it issues
\* carries more than 1000 keys and its keys buffer never holds more than
\* 1000 entries.
C19_BatchesOfAThousand ==
    /\ scan.sent <= 1000
    /\ scan.held <= 1000
    /\ Len(scan.keys) <= 1000

\* C20: a ReadBytes or UpdateBytes call leaves no fewer gzip readers and
\* writers in the pools than it found: what it took from a pool it puts
\* back on every exit path.
C20_PooledInstancesReturned ==
    [][(\/ /\ last'.op = "ReadBytes"
           /\ \E fail \in BOOLEAN : ReadBytes(TheKey, fail)
        \/ /\ last'.op = "UpdateBytes"
           /\ \E payload \in Payloads, ttl \in {0, TestTTL}, fail \in BOOLEAN :
                 UpdateBytes(TheKey, payload, ttl, fail))
          => (greaders' >= greaders /\ gwriters' >= gwriters)]_vars

\* C21: a Watch call that registers callbacks for one topic never holds up
\* the dispatch of a notification on another topic: in no state does the
\* dispatch loop, about to look up the callbacks of a topic, wait for a
\* lock held by a registration that does not name that topic.
C21_RegistrationNeverBlocksOtherTopics ==
    \A c \in Callers :
       (watch.pc = "rlock" /\ topicCallbackMu.w = c)
          => watch.notify.channel \in Range(calls[c].topics)

\* C22: the dispatch loop holds no lock of the registry while a callback
\* runs: the read lock is released before the first callback is called, so
\* a callback that calls Watch gets the write lock, its Watch returns, and
\* the dispatch loop goes on to the next notification.
C22_NoLockAcrossCallbacks ==
    /\ [](watch.pc \in {"loop", "callback"} => topicCallbackMu.r = 0)
    /\ [][(watch.pc # "callback" /\ watch'.pc = "callback")
            => (topicCallbackMu.r = 0 /\ topicCallbackMu' = topicCallbackMu)]_vars
    /\ (calls[InCallback].pc # "idle") ~> (calls[InCallback].pc = "idle")
    /\ (watch.pc = "callback") ~> (watch.pc = "range")

\* the Watch call of a running callback holds the write lock
C22_Witness ==
    /\ watch.pc = "callback"
    /\ calls[InCallback].pc = "append"
    /\ topicCallbackMu = [w |-> InCallback, r |-> 0]
    /\ calls[InCallback].topics = <<log[Len(log)].notify.channel>>

\* the ids of the contexts passed to the callbacks of the k-th dispatched
\* notification
CtxIds(k) == Range(log[k].ctxs)

\* C23: each dispatched notification gets exactly one new context with a
\* deadline of 10 seconds, derived from the background context and from no
\* caller's: every callback called for the notification is passed that
\* context, no other notification's callbacks are, and its cancel() is
\* called only when the last callback of the notification has returned.
C23_OneContextPerNotification ==
    /\ [](/\ watch.made = Len(log) - (IF watch.pc \in {"rlock", "runlock"}
                                        THEN 1 ELSE 0)
          /\ \A k \in 1..Len(log) :
                /\ Len(log[k].ctxs) = Len(log[k].calls)
                /\ Cardinality(CtxIds(k)) <= 1
                /\ \A l \in 1..Len(log) : k # l => CtxIds(k) \cap CtxIds(l) = {}
          /\ watch.pc \in {"loop", "callback"}
                => /\ watch.ctx.parent = "Background"
                   /\ watch.ctx.timeout = 10
                   /\ ~watch.ctx.cancelled
                   /\ CtxIds(Len(log)) \subseteq {watch.ctx.id}
                   /\ \A k \in 1..(Len(log) - 1) : watch.ctx.id \notin CtxIds(k))
    /\ [][(watch'.ctx.cancelled /\ ~watch.ctx.cancelled)
            => /\ watch.pc = "loop"
               /\ watch.idx = Len(watch.cbs)
               /\ log[Len(log)].calls = log[Len(log)].cbs
               /\ watch'.ctx.id = watch.ctx.id]_vars

\* the second notification went to two callbacks with one context, which
\* was not the context of the first; its deadline passed before the last
\* callback returned, and cancel() has been called since
C23_Witness ==
    /\ Len(log) = 2
    /\ Len(log[1].ctxs) > 0
    /\ log[2].ctxs = <<2, 2>>
    /\ CtxIds(1) = {1}
    /\ watch.ctx.id = 2
    /\ watch.ctx.err # NoErr
    /\ watch.ctx.cancelled

\* no command follows a command that failed
FailureIsLast(cmds) == \A j \in 1..Len(cmds) : ~cmds[j].ok => j = Len(cmds)

\* the names of the commands
CmdNames(cmds) == [j \in 1..Len(cmds) |-> cmds[j].cmd]

\* C24: no cache operation retries: a ReadBytes or Read call sends exactly
\* one GET, an UpdateBytes or Update call at most one SET, a Revoke call
\* exactly one UNLINK, and in every operation, RevokeByPattern included, a
\* backend command that fails is the last one the operation sends and the
\* operation returns an error.
C24_NoRetries ==
    /\ last.op \in {"ReadBytes", "Read"} => CmdNames(last.cmds) = <<"GET">>
    /\ last.op \in {"UpdateBytes", "Update"}
          => CmdNames(last.cmds) \in {<<>>, <<"SET">>}
    /\ last.op = "Revoke" => CmdNames(last.cmds) = <<"UNLINK">>
    /\ last.op = "RevokeByPattern"
          => Range(CmdNames(last.cmds)) \subseteq {"SCAN", "UNLINK"}
    /\ FailureIsLast(last.cmds)
    /\ (\E j \in 1..Len(last.cmds) : ~last.cmds[j].ok) => last.err # NoErr
    /\ FailureIsLast(scan.cmds)
    /\ (\E j \in 1..Len(scan.cmds) : ~scan.cmds[j].ok)
          => (scan.pc = "done" => (last.op = "RevokeByPattern" => last.err # NoErr))

\* a RevokeByPattern call has returned after two rounds of delete, and a
\* Read call whose GET failed after it
C24_Witness ==
    /\ scan.pc = "done"
    /\ scan.unlinks = 2
    /\ Len(scan.cmds) > 2
    /\ last.op = "Read"
    /\ last.cmds = <<[cmd |-> "GET", ok |-> FALSE]>>
    /\ last.err = <<"ReadBytes", "redis GET", BackendErr>>

\* C25: RevokeByPattern is not atomic and blocks no writer: while its scan
\* is under way an Update of any key goes through at once; a matching key
\* written after the scan began can be there when the call returns and can
\* as well be gone; a matching key that is there at a return without error
\* was written after the scan began; keys that do not match the pattern
\* are neither deleted nor changed by the call in any interleaving.
C25_NotAtomicNonMatchingUntouched ==
    /\ scan.pc = "loop"
          => \A key \in RaceKeys : ENABLED WriterUpdate(key, StrVal(Small))
    /\ scan.pc # "idle"
          => \A k \in DOMAIN scan.before \cup DOMAIN store \cup scan.raced :
                IF Match(scan.pattern, k)
                THEN (scan.pc = "done" /\ last.err = NoErr /\ k \in DOMAIN store)
                        => k \in scan.raced
                ELSE /\ k \in DOMAIN scan.before \cup scan.raced <=> k \in DOMAIN store
                     /\ k \notin scan.raced => store[k] = scan.before[k]

\* RevokeByPattern has returned without error: of two matching keys
\* written after the scan began one is still there and the other is gone,
\* and so is the matching key that was there from the start; the keys that
\* do not match are all there
C25_Witness ==
    /\ scan.pc = "done"
    /\ last.op = "RevokeByPattern"
    /\ last.err = NoErr
    /\ scan.raced = RaceKeys
    /\ DOMAIN store = {Key("cache-", 1), Key("other-", 1), Key("other-", 2)}

\* what Test_newStatsKey expects
TestKeys ==
    {[prefix |-> <<>>, name |-> <<>>, Measure |-> <<>>, Field |-> <<>>],
     [prefix |-> <<>>, name |-> Wabc, Measure |-> <<>>, Field |-> Wabc],
     [prefix |-> <<>>, name |-> Dot(Wabc, Wdef), Measure |-> Wabc, Field |-> Wdef],
     [prefix |-> <<>>, name |-> Dot(Dot(Wabc, Wdef), Wefg),
      Measure |-> Dot(Wabc, Wdef), Field |-> Wefg],
     [prefix |-> W123, name |-> Wabc, Measure |-> W123, Field |-> Wabc],
     [prefix |-> W123, name |-> Dot(Wabc, Wdef),
      Measure |-> Dot(W123, Wabc), Field |-> Wdef],
     [prefix |-> W123, name |-> Dot(Dot(Wabc, Wdef), Wefg),
      Measure |-> Dot(Dot(W123, Wabc), Wdef), Field |-> Wefg]}

\* the prefix and the name joined with ".", the name alone under an empty
\* prefix
Joined == IF stats.prefix = <<>> THEN stats.name ELSE Dot(stats.prefix, stats.name)

\* C26: newStatsKey(prefix, name) joins a prefix that is not empty and
\* the name with "." and splits the word at its last ".": Measure is what
\* stands before it and Field what stands after it; a word without "."
\* gives an empty Measure and the word as Field, so an empty prefix and
\* name give the empty key; the cases of Test_newStatsKey come out as the
\* test expects.
C26_SplitAtLastDot ==
    stats.called =>
       /\ IF "." \in Range(Joined)
          THEN /\ Dot(stats.key.Measure, stats.key.Field) = Joined
               /\ "." \notin Range(stats.key.Field)
          ELSE stats.key = [Measure |-> <<>>, Field |-> Joined]
       /\ \A t \in TestKeys :
             (stats.prefix = t.prefix /\ stats.name = t.name)
                => stats.key = [Measure |-> t.Measure, Field |-> t.Field]

\* newStatsKey("123", "abc.def.efg") has returned "123.abc.def" and "efg"
C26_Witness ==
    /\ stats.called
    /\ stats.prefix = W123
    /\ stats.name = Dot(Dot(Wabc, Wdef), Wefg)
    /\ stats.key = [Measure |-> Dot(Dot(W123, Wabc), Wdef), Field |-> Wefg]

\* C27: when the LISTEN of a Watch call fails, the call returns the error
\* wrapped and leaves the registry as it was: its callback stands under
\* none of its topics, not under some of them either; the listener made
\* by the first call stays the one every later Watch call uses.
C27_FailedListenLeavesRegistry ==
    /\ [](/\ listener.made <= 1
          /\ \A j \in 1..Len(returned) :
                /\ listener.made = 1
                /\ returned[j].err # NoErr
                      => /\ Len(returned[j].err) = 2
                         /\ returned[j].err[1] = "db.listener.Listen"
                         /\ \A t \in Topics :
                               Count(returned[j].cb, Registered(t)) = 0)
    /\ [][\A c \in Callers :
             (calls[c].pc = "listen" /\ calls'[c].pc = "idle")
                => /\ returned' = Append(returned, returned'[Len(returned')])
                   /\ returned'[Len(returned')].cb = calls[c].cb
                   /\ returned'[Len(returned')].err # NoErr
                   /\ topicCallbacks' = topicCallbacks
                   /\ topicCallbackMu' = topicCallbackMu
                   /\ listener' = listener]_vars

\* the LISTEN of Watch(A, T2, T1) failed; Watch(B, ...) came after it on
\* the same listener and registered B; A stands under no topic
C27_Witness ==
    /\ Len(returned) = 2
    /\ returned[1].cb = "A"
    /\ returned[1].topics = <<"T2", "T1">>
    /\ returned[1].err = <<"db.listener.Listen", BackendErr>>
    /\ returned[2].cb = "B"
    /\ returned[2].err = NoErr
    /\ ~returned[2].racing
    /\ listener.made = 1
    /\ \A t \in Topics : Count("A", Registered(t)) = 0
    /\ \E t \in Topics : Count("B", Registered(t)) > 0

\* C28: the callbacks a notification is dispatched to are a snapshot taken
\* at the lookup: the whole sequence of the topic as it stands then, which
\* no Watch call that completes afterwards (in another task or inside a
\* callback) changes; the callbacks called for the notification are those
\* of the snapshot, in its order, and a callback registered meanwhile is
\* in the snapshot of the next notification on its topic.
C28_SnapshotAtLookup ==
    /\ [](\A k \in 1..Len(log) :
             /\ IsPrefix(log[k].calls, log[k].cbs)
             /\ log[k].done => log[k].calls = log[k].cbs
             /\ (k = Len(log) /\ watch.pc \in {"runlock", "loop", "callback"})
                   => watch.cbs = log[k].cbs)
    /\ [][/\ \A k \in 1..Len(log) :
                log[k].looked => log'[k].cbs = log[k].cbs
          /\ (watch.pc \in {"runlock", "loop", "callback"} /\ watch'.pc # "range")
                => watch'.cbs = watch.cbs
          /\ (watch.pc = "rlock" /\ watch'.pc = "runlock")
                => /\ watch'.cbs = Registered(watch.notify.channel)
                   /\ log'[Len(log')].cbs = Registered(watch.notify.channel)]_vars

\* while A, the one callback of the snapshot of a notification on T1, is
\* running, B has been registered on T1 as well
C28_Witness ==
    /\ Len(log) = 1
    /\ log[1].notify.channel = "T1"
    /\ watch.pc = "callback"
    /\ calls[InCallback].pc = "idle"
    /\ log[1].cbs = <<"A">>
    /\ log[1].calls = <<"A">>
    /\ watch.cbs = <<"A">>
    /\ Registered("T1") = <<"A", "B">>

\* the keys a RevokeByPattern call has removed so far
Removed == DOMAIN scan.before \ DOMAIN store

\* the call returned because an UNLINK in the scan loop failed or the
\* iterator reported an error
FailedInScan ==
    /\ scan.pc = "done"
    /\ last.op = "RevokeByPattern"
    /\ last.err # NoErr
    /\ last.err[1] \in {"redis Unlink in scan loop", "iter.Err"}

\* C29: when an UNLINK in the scan loop of RevokeByPattern fails, or the
\* iterator reports an error, the call returns that error wrapped and
\* does nothing more: the rounds of delete that went through stay, the
\* keys collected since and the keys not yet scanned are still in the
\* backend, and the remainder is not deleted.
C29_FailureStopsTheScan ==
    /\ [](FailedInScan
           => /\ last.err = <<last.err[1], BackendErr>>
              /\ ~scan.cmds[Len(scan.cmds)].ok
              /\ scan.cmds[Len(scan.cmds)].cmd
                    = (IF last.err[1] = "iter.Err" THEN "SCAN" ELSE "UNLINK")
              /\ \A j \in 1..(Len(scan.cmds) - 1) : scan.cmds[j].ok
              /\ Cardinality({j \in 1..Len(scan.cmds) :
                                 scan.cmds[j].cmd = "UNLINK" /\ scan.cmds[j].ok})
                    = scan.unlinks
              /\ DOMAIN store \subseteq DOMAIN scan.before
              /\ \A k \in DOMAIN store : store[k] = scan.before[k]
              /\ \A k \in Removed : Match(scan.pattern, k)
              /\ Cardinality(Removed) = scan.unlinks * (BatchLimit + 1)
              /\ Range(scan.keys) \subseteq DOMAIN store
              /\ \A j \in (scan.pos + 1)..Len(scan.page) :
                    scan.page[j] \in DOMAIN store
              /\ scan.cursor # 0
                    => \A j \in (scan.cursor + 1)..NumSlots :
                          SlotKey(j) \in DOMAIN scan.before
                             => SlotKey(j) \in DOMAIN store)
    /\ [][(scan.pc = "loop" /\ FailedInScan') => store' = store]_vars

\* RevokeByPattern("*") has returned the error of a SCAN that failed after
\* one round of delete, with keys collected since then
C29_Witness ==
    /\ FailedInScan
    /\ last.err = <<"iter.Err", BackendErr>>
    /\ scan.pattern = <<"", "*">>
    /\ scan.unlinks = 1
    /\ Cardinality(Removed) = BatchLimit + 1
    /\ Len(scan.keys) > 0
    /\ Range(scan.keys) \subseteq DOMAIN store

\* C30: limitreader.Reader enforces its limit by failing: over any
\* sequence of Read calls it hands out at most limit bytes, and on a
\* stream longer than the limit the reads made once the limit is used up
\* come to return the error "stream bigger than threshold", so that a
\* caller who reads until EOF or an error comes to an end.
C30_LimitEnforcedByFailing ==
    /\ [](lr.total <= lr.originalLimit)
    /\ (lr.left = 0 /\ lr.r > 0) ~> (lr.err = ErrThreshold(lr.originalLimit))
====
